---- MODULE Spec2Model ----
(***************************************************************************)
(* FilterDNS client: the daemon control plane (internal/daemon), the       *)
(* platform DNS mutators (internal/system: systemd-resolved,               *)
(* NetworkManager, resolv.conf, macOS, Windows), the persistent DNS        *)
(* backup file and the proxy's listeners (internal/dns/proxy.go).          *)
(*                                                                         *)
(* Every OS tool invocation and every file write is one step of its own,   *)
(* so that a SIGKILL of the daemon can fall between any two of them, and   *)
(* each of them may fail.                                                  *)
(***************************************************************************)
EXTENDS Integers, Sequences, FiniteSets, TLC

\* ------------------------------------------------------------------ bounds
\* number of DNS servers a host is configured with before diversion
MaxServers == 2
\* number of macOS network services / Windows connected interfaces
MaxUnits == 2
\* number of control-socket connections handled in parallel
MaxHandlers == 2
\* number of failures (a failing OS tool, file operation or bind) the
\* environment inflicts in one behaviour
MaxFaults == 1
\* number of times the daemon process is killed in one behaviour
MaxCrashes == 1
\* number of split-DNS forwarder rules in a configuration
MaxRules == 2
\* number of DNS queries the proxy handles in parallel
MaxWorkers == 2
\* number of DNS queries one proxy receives in one behaviour
MaxQueries == 3

\* ------------------------------------------------------------ environment
\* the server the daemon installs (Daemon.enable: system.SetDNS("127.0.0.1"))
Local == "127.0.0.1"
\* addresses a host may have configured, in the order of its list
Pool == <<"192.168.1.1", "8.8.8.8", "9.9.9.9", "1.1.1.1">>
\* the resolver lists a host may start with: none, or MaxServers servers
OrigLists == {<<>>, SubSeq(Pool, 1, MaxServers)}
\* the servers the DHCP lease of the host provides
DhcpDNS == <<"10.0.0.1">>
\* the default-route interface of a systemd-resolved host
Iface == "eth0"
\* the first active NetworkManager connection
ConnName == "Wired"
Services == 1..MaxUnits
Interfaces == 1..MaxUnits
Platforms == {"systemd-resolved", "networkmanager", "resolvconf", "darwin", "windows"}
Handlers == 1..MaxHandlers
Main == 0
\* the goroutine of Daemon.Run that waits for SIGINT / SIGTERM
Sig == MaxHandlers + 1
Threads == {Main} \cup Handlers \cup {Sig}
NoThread == -1
\* another process of the program on the host: a second daemon, or the
\* dns-reset command
Peer == -2
Profiles == {"", "home"}
\* config.DefaultServerURL, and the server of a production build
DefaultServerURL == "http://localhost:8080"
ServerURLs == {DefaultServerURL, "https://filterdns.example.com"}
Workers == 1..MaxWorkers

\* ---------------------------------------------------------------- strings
\* a domain name is the sequence of its characters
UpperCase == <<"A", "B", "C", "E", "I", "N", "O", "P", "R", "S", "T", "X">>
LowerCase == <<"a", "b", "c", "e", "i", "n", "o", "p", "r", "s", "t", "x">>

\* strings.ToLower
ToLower(s) ==
  [k \in 1..Len(s) |->
     IF \E u \in 1..Len(UpperCase) : UpperCase[u] = s[k]
     THEN LowerCase[CHOOSE u \in 1..Len(UpperCase) : UpperCase[u] = s[k]]
     ELSE s[k]]

\* strings.ToUpper: the spelling of a name a client may send
ToUpper(s) ==
  [k \in 1..Len(s) |->
     IF \E u \in 1..Len(LowerCase) : LowerCase[u] = s[k]
     THEN UpperCase[CHOOSE u \in 1..Len(LowerCase) : LowerCase[u] = s[k]]
     ELSE s[k]]

\* strings.HasSuffix, strings.HasPrefix, strings.TrimSuffix
HasSuffix(s, suffix) ==
  /\ Len(suffix) <= Len(s)
  /\ SubSeq(s, Len(s) - Len(suffix) + 1, Len(s)) = suffix
HasPrefix(s, prefix) ==
  /\ Len(prefix) <= Len(s)
  /\ SubSeq(s, 1, Len(prefix)) = prefix
TrimSuffix(s, suffix) ==
  IF HasSuffix(s, suffix) THEN SubSeq(s, 1, Len(s) - Len(suffix)) ELSE s

\* ------------------------------------- forwarder rules (internal/dns/forwarder.go)
\* NewForwarderMatcher: one rule per forwarder, in input order
NewForwarderMatcher(forwarders) ==
  [k \in 1..Len(forwarders) |->
     LET domain == ToLower(TrimSuffix(forwarders[k].Domain, <<".">>))
         isWild == HasPrefix(domain, <<"*", ".">>)
     IN  [pattern |-> IF isWild THEN SubSeq(domain, 3, Len(domain)) ELSE domain,
          server |-> forwarders[k].Server,
          isWild |-> isWild]]

\* the loop of Match with a suffix test that does not ask for the dot
RECURSIVE MatchFromNoDot(_, _, _)
MatchFromNoDot(rules, domain, k) ==
  IF k > Len(rules) THEN ""
  ELSE IF domain = rules[k].pattern \/ HasSuffix(domain, rules[k].pattern)
       THEN rules[k].server
       ELSE MatchFromNoDot(rules, domain, k + 1)

\* the loop of ForwarderMatcher.Match from rule k on; "" is no match
RECURSIVE MatchFrom(_, _, _)
MatchFrom(rules, domain, k) ==
  IF k > Len(rules) THEN ""
  ELSE IF rules[k].isWild
       THEN IF domain = rules[k].pattern
               \/ HasSuffix(domain, <<".">> \o rules[k].pattern)
            THEN rules[k].server
            ELSE MatchFrom(rules, domain, k + 1)
       ELSE IF domain = rules[k].pattern
               \/ HasSuffix(domain, <<".">> \o rules[k].pattern)
            THEN rules[k].server
            ELSE MatchFrom(rules, domain, k + 1)

\* ForwarderMatcher.Match
Match(rules, domain) ==
  MatchFrom(rules, ToLower(TrimSuffix(domain, <<".">>)), 1)

VARIABLES
  \* ---- the host: survives the daemon process
  platform,        \* which mutator the detection heuristics select
  backupFile,      \* dns-backup.json: [exists, ...DNSBackup fields]
  resolvConfFile,  \* nameserver lines of /etc/resolv.conf (Linux)
  resolvConfBak,   \* /etc/resolv.conf.filterdns.bak: [exists, content]
  linkDNS,         \* systemd-resolved: per-link override, <<>> = reverted
  nmProfile,       \* NetworkManager: [dns, ignore] of the connection profile
  svcDNS,          \* macOS: service -> manually set servers, <<>> = DHCP
  ifDNS,           \* Windows: interface -> [source, servers]
  cfgFile,         \* config.json: [Profile, ServerURL, Enabled, Forwarders]
  orig,            \* the resolver configuration before any diversion
  \* ---- the daemon process
  pc,              \* thread -> position
  req,             \* thread -> action it is serving
  res,             \* thread -> outcome of that action
  config,          \* Daemon.config
  running,         \* Daemon.running
  proxy,           \* Daemon.proxy: "nil" or "p"
  mu,              \* Daemon.mu: the thread holding it, or NoThread
  listener,        \* the control socket is bound
  px,              \* Daemon.proxy: its listeners, matcher, cache and counters
  orphans,         \* goroutines and listeners of proxies no longer referenced
  sys,             \* the SetDNS / ResetDNS call in progress
  faults,          \* failures inflicted so far
  crashes,         \* kills of the daemon so far
  hist,            \* history of the calls, for stating the properties
  \* ---- beside the daemon's control plane
  peer,            \* another process of the program on the host
  work,            \* worker -> the DNS query the proxy's handler is serving
  mcall,           \* the last call of ForwarderMatcher.Match
  cch,             \* a Cache on its own, with the clock its calls read
  doh              \* a DoHClient on its own, with the dials it has made

hostVars == <<platform, backupFile, resolvConfFile, resolvConfBak, linkDNS,
              nmProfile, svcDNS, ifDNS, cfgFile, orig>>
resolverVars == <<resolvConfFile, linkDNS, nmProfile, svcDNS, ifDNS>>
daemonVars == <<pc, req, res, config, running, proxy, mu, listener>>
proxyVars == <<px, orphans>>
unitVars == <<mcall, cch, doh>>
extVars == <<peer, work, unitVars>>
vars == <<hostVars, daemonVars, proxyVars, sys, faults, crashes, hist, extVars>>

\* ------------------------------------------------------------ backup file
\* no dns-backup.json on disk; the fields are the zero values of DNSBackup
NoBackup ==
  [exists |-> FALSE, dns_modified |-> FALSE, system |-> "", interface |-> "",
   connection_name |-> "", original_dns |-> <<>>, ignore_auto_dns |-> FALSE,
   resolvconf_modified |-> FALSE,
   services |-> [s \in Services |-> <<>>],
   interfaces |-> [i \in Interfaces |-> <<>>]]

\* SaveBackup: stamp the payload and write it; a failed write leaves the
\* directory as it was
SaveBackup(payload, ok) ==
  IF ok THEN [payload EXCEPT !.exists = TRUE, !.dns_modified = TRUE]
        ELSE backupFile

\* LoadBackup: the payload on disk, or nil (NoBackup) when there is no file
LoadBackup == backupFile

\* ClearBackup: os.Remove of the file; a failed removal leaves it, and
\* removing a file that is not there is no error
ClearBackup(ok) == IF ok THEN NoBackup ELSE backupFile

\* HasPendingRestore
HasPendingRestore == LoadBackup.exists /\ LoadBackup.dns_modified

\* ------------------------------------------------------ resolver observers
\* /etc/resolv.conf as NetworkManager generates it on "connection up"
NMResolvConf(p) == p.dns \o (IF p.ignore THEN <<>> ELSE DhcpDNS)

\* /etc/resolv.conf as systemd-resolved generates it for the link
ResolvedResolvConf(link) == IF link = <<>> THEN DhcpDNS ELSE link

RECURSIVE Dedup(_, _)
Dedup(s, seen) ==
  IF s = <<>> THEN <<>>
  ELSE IF Head(s) \in seen THEN Dedup(Tail(s), seen)
  ELSE <<Head(s)>> \o Dedup(Tail(s), seen \cup {Head(s)})

RECURSIVE Concat(_, _, _)
Concat(f, i, n) == IF i > n THEN <<>> ELSE f[i] \o Concat(f, i + 1, n)

\* the whole resolver configuration of the host
Resolver == [resolvConf |-> resolvConfFile, link |-> linkDNS, nm |-> nmProfile,
             svc |-> svcDNS, ifs |-> [i \in Interfaces |-> ifDNS[i].servers]]

\* getCurrentDNS, per platform, of the resolver configuration r: the
\* nameserver lines of /etc/resolv.conf on Linux; the servers of every
\* service (interface) in order, each once, on macOS (Windows)
CurrentDNS(r) ==
  CASE platform = "darwin" -> Dedup(Concat(r.svc, 1, MaxUnits), {})
    [] platform = "windows" -> Dedup(Concat(r.ifs, 1, MaxUnits), {})
    [] OTHER -> r.resolvConf

GetCurrentDNS == CurrentDNS(Resolver)

\* the stub resolver of the host sends its queries to 127.0.0.1
Diverted == \E k \in 1..Len(GetCurrentDNS) : GetCurrentDNS[k] = Local

\* some part of the resolver configuration holds 127.0.0.1
Holds(l) == \E k \in 1..Len(l) : l[k] = Local
PartlyDiverted ==
  \/ Holds(resolvConfFile) \/ Holds(linkDNS) \/ Holds(nmProfile.dns)
  \/ \E u \in 1..MaxUnits : Holds(svcDNS[u]) \/ Holds(ifDNS[u].servers)

\* ---------------------------------------------------------- call records
\* op: "set" (SetDNS) or "reset" (ResetDNS); pc: the step the call is at,
\* "ret" once it has returned err; server: the argument of SetDNS; i, j: the
\* loop indices; bk: the backup the call loaded.  wrote (this call wrote the
\* backup file), failed (a restore step of this call failed) and had (a
\* backup file was on disk when the call began) only record what happened.
NoCall == [op |-> "none", pc |-> "none", who |-> NoThread, server |-> "",
           i |-> 1, j |-> 1, bk |-> NoBackup, err |-> FALSE,
           wrote |-> FALSE, failed |-> FALSE, had |-> FALSE]

Call(op, t, server) ==
  [NoCall EXCEPT !.op = op, !.pc = "begin", !.who = t, !.server = server,
                 !.had = backupFile.exists]

Ret(c, err) == [c EXCEPT !.pc = "ret", !.err = err]

\* last: how the previous SetDNS / ResetDNS call ended; lastWrote: whether
\* it wrote the backup file; before: GetCurrentDNS when the last SetDNS
\* began; enableFailed: the last enable failed in SetDNS; recovered: the
\* outcome of RestoreFromBackupIfNeeded in this process; total, blocked: the
\* counters the last status response of this process carried
NoHist == [last |-> "none", lastWrote |-> FALSE, before |-> <<>>,
           enableFailed |-> FALSE, recovered |-> "no", total |-> 0, blocked |-> 0]

\* the history once the call in sys has returned to its caller
Returned(h, c) ==
  [h EXCEPT !.last = c.op \o (IF c.err THEN "-err" ELSE "-ok"),
            !.lastWrote = c.wrote]

\* ---------------------------------------------------- queries and the cache
\* the names clients ask for, as they arrive (fully qualified), and the
\* query types
QNames == {<<"a", ".", "t", "s", ".", "n", "e", "t", ".">>,
           <<"x", ".", "i", "o", ".">>}
\* query types, by number: A (1) and AAAA (28)
Qtypes == {1, 28}
\* transaction IDs of queries
MaxIds == 2
\* number of Proxy.UpdateForwarders calls on one proxy in one behaviour
MaxUpdates == 1
Ids == 1..MaxIds
\* split DNS servers of forwarder rules
SplitServers == {"100.100.100.100", "192.168.1.1:53"}
\* what an upstream call yields: an error (failure, timeout, cancellation),
\* an answer, an answer whose TTL is under 10 seconds, or (FilterDNS only)
\* an answer that says the name is blocked
Outcomes == {"fail", "ok", "short", "blocked"}

\* dns.TypeToString[qtype]: the mnemonic of a registered type, and the zero
\* value of the map, the empty string, for a type that has none
TypeToString(qtype) ==
  CASE qtype = 0 -> "None"
    [] qtype = 1 -> "A"
    [] qtype = 28 -> "AAAA"
    [] OTHER -> ""
\* cacheKey: domain + ":" + dns.TypeToString[qtype]
cacheKey(domain, qtype) == <<domain, ":", TypeToString(qtype)>>
CacheKeys == {cacheKey(ToLower(n), t) : n \in QNames, t \in Qtypes}

NoMsg == [id |-> 0, from |-> "", kind |-> "none"]
NoEntry == [present |-> FALSE, msg |-> NoMsg, expired |-> FALSE]
\* NewCache: no entries
NewCache == [k \in CacheKeys |-> NoEntry]

\* Cache.Get: a copy of the entry's message, or nil (NoMsg) when there is no
\* entry or it has expired
Get(cache, domain, qtype) ==
  LET entry == cache[cacheKey(domain, qtype)] IN
  IF ~entry.present \/ entry.expired THEN NoMsg ELSE entry.msg

\* Cache.Set: store a copy of msg, unless its TTL is under 10 seconds
Set(cache, domain, qtype, msg) ==
  IF msg.kind = "short" THEN cache
  ELSE [cache EXCEPT ![cacheKey(domain, qtype)] =
          [present |-> TRUE, msg |-> msg, expired |-> FALSE]]

\* a worker that serves no query
NoQuery == [pc |-> "idle", id |-> 0, name |-> <<>>, qtype |-> 0,
            question |-> FALSE, orphan |-> FALSE, route |-> "none",
            contacted |-> <<>>, outcome |-> "none", reply |-> NoMsg, seen |-> 0,
            epoch |-> 0, rules |-> <<>>]
NoWork == [w \in Workers |-> NoQuery]
NoPeer == [kind |-> "none", pc |-> "none"]
NoMatchCall == [called |-> FALSE, forwarders |-> <<>>, domain |-> <<>>, out |-> ""]
\* ---------------------------------------- the DoH client on its own (doh.go)
\* number of connections one DoH client opens in one behaviour
MaxDials == 2
\* bootstrapDNS, by position
BootstrapDNS == <<"1.1.1.1:53", "8.8.8.8:53", "9.9.9.9:53">>
\* the server URLs a client is built for: the default, a host name, an IP
DohURLs == ServerURLs \cup {"https://203.0.113.9"}
\* url.Parse(serverURL).Hostname()
Hostname(serverURL) ==
  CASE serverURL = "http://localhost:8080" -> "localhost"
    [] serverURL = "https://filterdns.example.com" -> "filterdns.example.com"
    [] serverURL = "https://203.0.113.9" -> "203.0.113.9"
    [] OTHER -> ""
\* the port of the address net/http dials for the URL
PortOf(serverURL) == IF serverURL = "http://localhost:8080" THEN "8080" ELSE "443"
\* the addresses the bootstrap servers can answer with ("": no answer, an
\* error or no A record)
UpstreamIPs == {"203.0.113.9", "198.51.100.7"}
\* net.ParseIP(host) != nil
IsIP(host) == host \in UpstreamIPs
\* an address "host:port", as net.SplitHostPort and net.JoinHostPort see it
JoinHostPort(host, port) == [host |-> host, port |-> port]
NoAddr == JoinHostPort("", "")
\* resolveServerIP's loop: the first bootstrap server with an answer
RECURSIVE FirstAnswer(_, _)
FirstAnswer(answers, i) ==
  IF i > Len(answers) THEN ""
  ELSE IF answers[i] # "" THEN answers[i]
  ELSE FirstAnswer(answers, i + 1)
\* resolveServerIP, given what the bootstrap servers answer
resolveServerIP(serverURL, answers) ==
  IF IsIP(Hostname(serverURL)) THEN Hostname(serverURL)
  ELSE FirstAnswer(answers, 1)
\* dialContext: the address handed to net.Dialer
dialContext(c, addr) ==
  IF c.serverIP # "" /\ addr.host = Hostname(c.serverURL)
  THEN JoinHostPort(c.serverIP, addr.port)
  ELSE addr
NoDoH == [made |-> FALSE, serverURL |-> "", answers |-> <<>>, serverIP |-> "",
          dials |-> 0, dialed |-> NoAddr, lookup |-> "", result |-> "none"]

\* ------------------------------------------- the Cache on its own (cache.go)
\* capacity of a Cache constructed on its own (the proxy's has 10000)
MaxSize == 2
\* number of Cache.Set calls in one behaviour
MaxSets == 3
\* number of times the clock is seen to advance in one behaviour
MaxTicks == 2
\* NewCache(5*time.Minute, 10000): the default TTL, in seconds
DefaultTTL == 300
\* "Don't cache very short TTLs": 10*time.Second
ShortTTL == 10
\* minTTL := uint32(3600)
StartTTL == 3600
\* the seconds that pass between two calls
Steps == {1, 10, 300}
\* keys of the entries: one more than fit
UnitNames == <<<<"a", ".">>, <<"b", ".">>, <<"x", ".">>, <<"i", "o", ".">>,
               <<"n", "e", "t", ".">>>>
UnitKeys == {cacheKey(UnitNames[i], 1) : i \in 1..(MaxSize + 1)}
NoKey == cacheKey(<<>>, 0)
\* responses, by the TTLs of their answer RRs
UnitMsgs == {[Answer |-> a] : a \in {<<>>, <<5>>, <<10, 4000>>}}
NilMsg == [Answer |-> <<-1>>]
NoUnitEntry == [present |-> FALSE, msg |-> NilMsg, expiresAt |-> 0]
\* the call that has just returned
NoLast == [op |-> "none", key |-> NoKey, msg |-> NilMsg, out |-> NilMsg,
           victim |-> NoKey, domain |-> <<>>, qtype |-> 0]
\* what the insertions were, kept beside the Cache: when, with which TTL,
\* which response, and whether a later Set or Clear has removed the entry
NoIns == [live |-> FALSE, at |-> 0, T |-> 0, msg |-> NilMsg]
NoCache == [made |-> FALSE, entries |-> [k \in UnitKeys |-> NoUnitEntry],
            ttl |-> 0, maxSize |-> 0, now |-> 0, sets |-> 0, ticks |-> 0,
            ins |-> [k \in UnitKeys |-> NoIns], last |-> NoLast]
Cache_New(ttl, maxSize) == [NoCache EXCEPT !.made = TRUE, !.ttl = ttl,
                                           !.maxSize = maxSize]
\* len(c.entries)
Cache_Size(entries) == Cardinality({k \in DOMAIN entries : entries[k].present})

RECURSIVE MinAnswerTTL(_, _)
MinAnswerTTL(answer, minTTL) ==
  IF answer = <<>> THEN minTTL
  ELSE MinAnswerTTL(Tail(answer),
                    IF Head(answer) < minTTL THEN Head(answer) ELSE minTTL)
\* Set's ttl, before the entry is stored
Cache_SetTTL(ttl, msg) ==
  IF Len(msg.Answer) > 0 /\ MinAnswerTTL(msg.Answer, StartTTL) < ttl
  THEN MinAnswerTTL(msg.Answer, StartTTL)
  ELSE ttl
\* Get: nil (NilMsg) for a missing entry and for one past its expiry
Cache_GetBefore(c, key) ==
  IF ~c.entries[key].present THEN NilMsg
  ELSE IF c.now >= c.entries[key].expiresAt THEN NilMsg
  ELSE c.entries[key].msg
Cache_Get(c, key) ==
  IF ~c.entries[key].present THEN NilMsg
  ELSE IF c.now > c.entries[key].expiresAt THEN NilMsg
  ELSE c.entries[key].msg
\* evictOldest: the keys the loop can end on, in some order of the map
Cache_OldestAny(entries) == {k \in DOMAIN entries : entries[k].present}
Cache_Oldest(entries) ==
  {k \in DOMAIN entries :
     /\ entries[k].present /\ \A j \in DOMAIN entries : entries[j].present =>
                         ~(entries[j].expiresAt < entries[k].expiresAt)}
Cache_evictOldestKept(entries, victim) == entries
Cache_evictOldest(entries, victim) ==
  [k \in DOMAIN entries |-> IF k = victim THEN NoUnitEntry ELSE entries[k]]
\* cleanup: one tick of the ticker
Cache_cleanup(c) ==
  [k \in UnitKeys |-> IF c.entries[k].present /\ c.now > c.entries[k].expiresAt
                      THEN NoUnitEntry ELSE c.entries[k]]

\* Daemon.proxy = nil, and the zero values NewProxy starts from
NoPx == [started |-> FALSE, udp |-> "none", tcp |-> "none",
         config |-> [Profile |-> "", ServerURL |-> ""],
         forwarders |-> <<>>, cache |-> NewCache,
         queriesTotal |-> 0, queriesBlocked |-> 0, received |-> 0,
         prev |-> <<>>, updates |-> 0]
\* NewProxy(cfg): the DoH client for cfg's server and profile, the matcher
\* of cfg's forwarders, an empty cache, counters at zero
NewProxy(cfg) ==
  [NoPx EXCEPT !.config = [Profile |-> cfg.Profile, ServerURL |-> cfg.ServerURL],
               !.forwarders = NewForwarderMatcher(cfg.Forwarders)]
NoOrphans == [start |-> FALSE, tcpStart |-> FALSE, udp |-> FALSE, tcp |-> FALSE]

\* the environment makes the operations whose outcomes are oks (TRUE =
\* success) fail as chosen, within its budget
RECURSIVE Failures(_)
Failures(oks) ==
  IF oks = <<>> THEN 0
  ELSE (IF Head(oks) THEN 0 ELSE 1) + Failures(Tail(oks))

Inflict(oks) ==
  /\ faults + Failures(oks) <= MaxFaults
  /\ faults' = faults + Failures(oks)

\* ------------------------------------------------------------------- Init
\* config.Default, as a fresh install leaves it after onboarding (or not)
InitConfigs == {[Profile |-> p, ServerURL |-> DefaultServerURL, Enabled |-> FALSE,
                 Forwarders |-> <<>>] : p \in Profiles}

\* a Windows interface either takes its servers from DHCP or has a static list
InitIfs == {[source |-> "dhcp", servers |-> DhcpDNS]}
           \cup {[source |-> "static", servers |-> l] : l \in OrigLists \ {<<>>}}

Init ==
  /\ platform \in Platforms
  /\ backupFile = NoBackup
  /\ resolvConfBak = [exists |-> FALSE, content |-> <<>>]
  /\ linkDNS = <<>>
  /\ nmProfile \in IF platform = "networkmanager"
                   THEN [dns : OrigLists, ignore : BOOLEAN]
                   ELSE {[dns |-> <<>>, ignore |-> FALSE]}
  /\ resolvConfFile \in CASE platform = "resolvconf" -> OrigLists
                          [] platform = "networkmanager" -> {NMResolvConf(nmProfile)}
                          [] OTHER -> {DhcpDNS}
  /\ svcDNS \in IF platform = "darwin" THEN [Services -> OrigLists]
                ELSE {[s \in Services |-> <<>>]}
  /\ ifDNS \in IF platform = "windows" THEN [Interfaces -> InitIfs]
               ELSE {[i \in Interfaces |-> [source |-> "dhcp", servers |-> DhcpDNS]]}
  /\ cfgFile \in InitConfigs
  /\ orig = Resolver
  /\ pc = [t \in Threads |-> IF t = Main THEN "down" ELSE "idle"]
  /\ req = [t \in Threads |-> "none"]
  /\ res = [t \in Threads |-> "none"]
  /\ config = [Profile |-> "", ServerURL |-> DefaultServerURL, Enabled |-> FALSE,
               Forwarders |-> <<>>]
  /\ running = FALSE
  /\ proxy = "nil"
  /\ mu = NoThread
  /\ listener = FALSE
  /\ px = NoPx
  /\ orphans = NoOrphans
  /\ sys = NoCall
  /\ faults = 0
  /\ crashes = 0
  /\ hist = NoHist
  /\ peer = NoPeer
  /\ work = NoWork
  /\ mcall = NoMatchCall
  /\ cch = NoCache
  /\ doh = NoDoH

\* what a step of the mutator leaves alone besides the resolver and the files
SysFrame == UNCHANGED <<platform, cfgFile, orig, daemonVars, proxyVars, crashes, hist,
                        extVars>>

\* ------------------------------------- Linux: systemd-resolved (dns_linux.go)
\* setDNSSystemdResolved, up to SaveBackup: getDefaultInterface, then the
\* backup {system, interface}
setDNSSystemdResolved_Backup ==
  /\ platform = "systemd-resolved" /\ sys.op = "set" /\ sys.pc = "begin"
  /\ \E ifaceOk, saveOk \in BOOLEAN :
       /\ Inflict(<<ifaceOk, saveOk>>)
       /\ IF ifaceOk /\ saveOk
          THEN /\ backupFile' = SaveBackup([NoBackup EXCEPT !.system = "systemd-resolved",
                                                            !.interface = Iface], TRUE)
               /\ sys' = [sys EXCEPT !.pc = "resolvectl", !.wrote = TRUE]
          ELSE /\ backupFile' = backupFile
               /\ sys' = Ret(sys, TRUE)
  /\ UNCHANGED <<resolverVars, resolvConfBak>>
  /\ SysFrame

\* setDNSSystemdResolved: resolvectl dns <iface> <server>, then the
\* best-effort resolvectl default-route, whose error is ignored
setDNSSystemdResolved_Resolvectl ==
  /\ platform = "systemd-resolved" /\ sys.op = "set" /\ sys.pc = "resolvectl"
  /\ \E ok \in BOOLEAN :
       /\ Inflict(<<ok>>)
       /\ IF ok
          THEN /\ linkDNS' = <<sys.server>>
               /\ resolvConfFile' = ResolvedResolvConf(<<sys.server>>)
               /\ sys' = Ret(sys, FALSE)
          ELSE /\ UNCHANGED <<linkDNS, resolvConfFile>>
               /\ sys' = Ret(sys, TRUE)
  /\ UNCHANGED <<backupFile, resolvConfBak, nmProfile, svcDNS, ifDNS>>
  /\ SysFrame

\* resetDNSSystemdResolved, up to resolvectl revert: the interface comes from
\* the backup, or from getDefaultInterface when there is none
resetDNSSystemdResolved_Revert ==
  /\ platform = "systemd-resolved" /\ sys.op = "reset" /\ sys.pc = "begin"
  /\ \E ifaceOk, ok \in BOOLEAN :
       /\ Inflict(<<ifaceOk, ok>>)
       /\ LET haveIface == (LoadBackup.exists /\ LoadBackup.interface # "") \/ ifaceOk IN
          IF haveIface /\ ok
          THEN /\ linkDNS' = <<>>
               /\ resolvConfFile' = ResolvedResolvConf(<<>>)
               /\ sys' = [sys EXCEPT !.pc = "clear"]
          ELSE /\ UNCHANGED <<linkDNS, resolvConfFile>>
               /\ sys' = [Ret(sys, TRUE) EXCEPT !.failed = TRUE]
  /\ UNCHANGED <<backupFile, resolvConfBak, nmProfile, svcDNS, ifDNS>>
  /\ SysFrame

\* resetDNSSystemdResolved: ClearBackup(), its error ignored; return nil
resetDNSSystemdResolved_Clear ==
  /\ platform = "systemd-resolved" /\ sys.op = "reset" /\ sys.pc = "clear"
  /\ \E ok \in BOOLEAN : Inflict(<<ok>>) /\ backupFile' = ClearBackup(ok)
  /\ sys' = Ret(sys, FALSE)
  /\ UNCHANGED <<resolverVars, resolvConfBak>>
  /\ SysFrame

\* --------------------------------------- Linux: NetworkManager (dns_linux.go)
\* getNetworkManagerDNS: a failed nmcli read yields the zero value
getNetworkManagerDNS(dnsOk, ignOk) ==
  [dns |-> IF dnsOk THEN nmProfile.dns ELSE <<>>,
   ignore |-> ignOk /\ nmProfile.ignore]

\* setDNSNetworkManager, up to SaveBackup: the first active connection, its
\* ipv4.dns and ipv4.ignore-auto-dns, then the backup
setDNSNetworkManager_Backup ==
  /\ platform = "networkmanager" /\ sys.op = "set" /\ sys.pc = "begin"
  /\ \E activeOk, dnsOk, ignOk, saveOk \in BOOLEAN :
       /\ Inflict(<<activeOk, dnsOk, ignOk, saveOk>>)
       /\ LET cur == getNetworkManagerDNS(dnsOk, ignOk) IN
          IF activeOk /\ saveOk
          THEN /\ backupFile' = SaveBackup([NoBackup EXCEPT
                                     !.system = "networkmanager",
                                     !.connection_name = ConnName,
                                     !.original_dns = cur.dns,
                                     !.ignore_auto_dns = cur.ignore], TRUE)
               /\ sys' = [sys EXCEPT !.pc = "modify", !.wrote = TRUE]
          ELSE /\ backupFile' = backupFile
               /\ sys' = Ret(sys, TRUE)
  /\ UNCHANGED <<resolverVars, resolvConfBak>>
  /\ SysFrame

\* setDNSNetworkManager: nmcli connection modify ipv4.dns <server>
\* ipv4.ignore-auto-dns yes
setDNSNetworkManager_Modify ==
  /\ platform = "networkmanager" /\ sys.op = "set" /\ sys.pc = "modify"
  /\ \E ok \in BOOLEAN :
       /\ Inflict(<<ok>>)
       /\ IF ok
          THEN /\ nmProfile' = [dns |-> <<sys.server>>, ignore |-> TRUE]
               /\ sys' = [sys EXCEPT !.pc = "up"]
          ELSE /\ nmProfile' = nmProfile
               /\ sys' = Ret(sys, TRUE)
  /\ UNCHANGED <<backupFile, resolvConfBak, resolvConfFile, linkDNS, svcDNS, ifDNS>>
  /\ SysFrame

\* setDNSNetworkManager: nmcli connection up, which applies the profile
setDNSNetworkManager_Up ==
  /\ platform = "networkmanager" /\ sys.op = "set" /\ sys.pc = "up"
  /\ \E ok \in BOOLEAN :
       /\ Inflict(<<ok>>)
       /\ IF ok
          THEN /\ resolvConfFile' = NMResolvConf(nmProfile)
               /\ sys' = Ret(sys, FALSE)
          ELSE /\ resolvConfFile' = resolvConfFile
               /\ sys' = Ret(sys, TRUE)
  /\ UNCHANGED <<backupFile, resolvConfBak, nmProfile, linkDNS, svcDNS, ifDNS>>
  /\ SysFrame

\* the values resetDNSNetworkManager writes back for a loaded backup b
nmRestoreValue(b) ==
  IF Len(b.original_dns) > 0
  THEN [dns |-> b.original_dns, ignore |-> b.ignore_auto_dns]
  ELSE [dns |-> <<>>, ignore |-> FALSE]

\* resetDNSNetworkManager, up to nmcli connection modify: LoadBackup, the
\* connection (the active one when the backup names none), the restore
resetDNSNetworkManager_Modify ==
  /\ platform = "networkmanager" /\ sys.op = "reset" /\ sys.pc = "begin"
  /\ \E loadOk, activeOk, ok \in BOOLEAN :
       /\ Inflict(<<loadOk, activeOk, ok>>)
       /\ LET b == LoadBackup
              connName == IF b.exists THEN b.connection_name ELSE "" IN
          IF b.exists /\ ~loadOk
          THEN /\ UNCHANGED <<nmProfile, backupFile>>
               /\ sys' = [Ret(sys, TRUE) EXCEPT !.failed = TRUE]
          ELSE IF connName = "" /\ ~activeOk
          THEN /\ nmProfile' = nmProfile
               /\ backupFile' = ClearBackup(ok)
               /\ sys' = Ret(sys, FALSE)
          ELSE IF ok
          THEN /\ nmProfile' = nmRestoreValue(b)
               /\ backupFile' = backupFile
               /\ sys' = [sys EXCEPT !.pc = "up", !.bk = b]
          ELSE /\ UNCHANGED <<nmProfile, backupFile>>
               /\ sys' = [Ret(sys, TRUE) EXCEPT !.failed = TRUE]
  /\ UNCHANGED <<resolvConfBak, resolvConfFile, linkDNS, svcDNS, ifDNS>>
  /\ SysFrame

\* resetDNSNetworkManager: nmcli connection up, its error ignored
resetDNSNetworkManager_Up ==
  /\ platform = "networkmanager" /\ sys.op = "reset" /\ sys.pc = "up"
  /\ \E ok \in BOOLEAN :
       /\ Inflict(<<ok>>)
       /\ resolvConfFile' = IF ok THEN NMResolvConf(nmProfile) ELSE resolvConfFile
       /\ sys' = [sys EXCEPT !.pc = "clear", !.failed = sys.failed \/ ~ok]
  /\ UNCHANGED <<backupFile, resolvConfBak, nmProfile, linkDNS, svcDNS, ifDNS>>
  /\ SysFrame

\* resetDNSNetworkManager: ClearBackup(), its error ignored; return nil
resetDNSNetworkManager_Clear ==
  /\ platform = "networkmanager" /\ sys.op = "reset" /\ sys.pc = "clear"
  /\ \E ok \in BOOLEAN : Inflict(<<ok>>) /\ backupFile' = ClearBackup(ok)
  /\ sys' = Ret(sys, FALSE)
  /\ UNCHANGED <<resolverVars, resolvConfBak>>
  /\ SysFrame

\* ------------------------------------------ Linux: resolv.conf (dns_linux.go)
\* setDNSResolvConf: copy /etc/resolv.conf to the sibling, unless it exists
setDNSResolvConf_Copy ==
  /\ platform = "resolvconf" /\ sys.op = "set" /\ sys.pc = "begin"
  /\ \E readOk, writeOk \in BOOLEAN :
       /\ Inflict(<<readOk, writeOk>>)
       /\ IF resolvConfBak.exists
          THEN /\ resolvConfBak' = resolvConfBak
               /\ sys' = [sys EXCEPT !.pc = "save"]
          ELSE IF readOk /\ writeOk
          THEN /\ resolvConfBak' = [exists |-> TRUE, content |-> resolvConfFile]
               /\ sys' = [sys EXCEPT !.pc = "save"]
          ELSE /\ resolvConfBak' = resolvConfBak
               /\ sys' = Ret(sys, TRUE)
  /\ UNCHANGED <<resolverVars, backupFile>>
  /\ SysFrame

\* setDNSResolvConf: SaveBackup, its error ignored
setDNSResolvConf_Save ==
  /\ platform = "resolvconf" /\ sys.op = "set" /\ sys.pc = "save"
  /\ \E ok \in BOOLEAN :
       /\ Inflict(<<ok>>)
       /\ backupFile' = SaveBackup([NoBackup EXCEPT !.system = "resolvconf",
                                                    !.resolvconf_modified = TRUE], ok)
       /\ sys' = [sys EXCEPT !.pc = "write", !.wrote = ok]
  /\ UNCHANGED <<resolverVars, resolvConfBak>>
  /\ SysFrame

\* setDNSResolvConf: overwrite /etc/resolv.conf with nameserver <server>
setDNSResolvConf_Write ==
  /\ platform = "resolvconf" /\ sys.op = "set" /\ sys.pc = "write"
  /\ \E ok \in BOOLEAN :
       /\ Inflict(<<ok>>)
       /\ IF ok
          THEN /\ resolvConfFile' = <<sys.server>>
               /\ sys' = Ret(sys, FALSE)
          ELSE /\ resolvConfFile' = resolvConfFile
               /\ sys' = Ret(sys, TRUE)
  /\ UNCHANGED <<backupFile, resolvConfBak, nmProfile, linkDNS, svcDNS, ifDNS>>
  /\ SysFrame

\* resetDNSResolvConf: without a sibling, ClearBackup and return nil;
\* otherwise copy the sibling back over /etc/resolv.conf
resetDNSResolvConf_Restore ==
  /\ platform = "resolvconf" /\ sys.op = "reset" /\ sys.pc = "begin"
  /\ \E readOk, writeOk, ok \in BOOLEAN :
       /\ Inflict(<<readOk, writeOk, ok>>)
       /\ IF ~resolvConfBak.exists
          THEN /\ backupFile' = ClearBackup(ok)
               /\ resolvConfFile' = resolvConfFile
               /\ sys' = Ret(sys, FALSE)
          ELSE IF readOk /\ writeOk
          THEN /\ backupFile' = backupFile
               /\ resolvConfFile' = resolvConfBak.content
               /\ sys' = [sys EXCEPT !.pc = "remove"]
          ELSE /\ backupFile' = backupFile
               /\ resolvConfFile' = resolvConfFile
               /\ sys' = [Ret(sys, TRUE) EXCEPT !.failed = TRUE]
  /\ UNCHANGED <<resolvConfBak, nmProfile, linkDNS, svcDNS, ifDNS>>
  /\ SysFrame

\* resetDNSResolvConf: os.Remove of the sibling, its error ignored
resetDNSResolvConf_Remove ==
  /\ platform = "resolvconf" /\ sys.op = "reset" /\ sys.pc = "remove"
  /\ \E ok \in BOOLEAN :
       /\ Inflict(<<ok>>)
       /\ resolvConfBak' = IF ok THEN [exists |-> FALSE, content |-> <<>>]
                           ELSE resolvConfBak
  /\ sys' = [sys EXCEPT !.pc = "clear"]
  /\ UNCHANGED <<resolverVars, backupFile>>
  /\ SysFrame

\* resetDNSResolvConf: ClearBackup(), its error ignored; return nil
resetDNSResolvConf_Clear ==
  /\ platform = "resolvconf" /\ sys.op = "reset" /\ sys.pc = "clear"
  /\ \E ok \in BOOLEAN : Inflict(<<ok>>) /\ backupFile' = ClearBackup(ok)
  /\ sys' = Ret(sys, FALSE)
  /\ UNCHANGED <<resolverVars, resolvConfBak>>
  /\ SysFrame

\* -------------------------------------------------- macOS (the darwin setDNS)
\* where the loop over the services / interfaces goes after unit i
NextUnit(c, i, done) ==
  IF i < MaxUnits THEN [c EXCEPT !.i = i + 1, !.j = 1] ELSE done

\* setDNS, up to SaveBackup: listNetworkServices, getDNSForService of each
\* service (a failed read stores nothing), then the backup
setDNSDarwin_Backup ==
  /\ platform = "darwin" /\ sys.op = "set" /\ sys.pc = "begin"
  /\ \E listOk, saveOk \in BOOLEAN, readOk \in [Services -> BOOLEAN] :
       /\ Inflict(<<listOk, saveOk>> \o readOk)
       /\ IF listOk /\ saveOk
          THEN /\ backupFile' = SaveBackup([NoBackup EXCEPT !.services =
                    [s \in Services |-> IF readOk[s] THEN svcDNS[s] ELSE <<>>]], TRUE)
               /\ sys' = [sys EXCEPT !.pc = "set", !.i = 1, !.wrote = TRUE]
          ELSE /\ backupFile' = backupFile
               /\ sys' = Ret(sys, TRUE)
  /\ UNCHANGED <<resolverVars, resolvConfBak>>
  /\ SysFrame

\* setDNS: networksetup -setdnsservers <service> <server>, service by
\* service; after the last one the cache flush, whose errors are ignored
setDNSDarwin_Set ==
  /\ platform = "darwin" /\ sys.op = "set" /\ sys.pc = "set"
  /\ \E ok \in BOOLEAN :
       /\ Inflict(<<ok>>)
       /\ IF ok
          THEN /\ svcDNS' = [svcDNS EXCEPT ![sys.i] = <<sys.server>>]
               /\ sys' = NextUnit(sys, sys.i, Ret(sys, FALSE))
          ELSE /\ svcDNS' = svcDNS
               /\ sys' = Ret(sys, TRUE)
  /\ UNCHANGED <<backupFile, resolvConfBak, resolvConfFile, linkDNS, nmProfile, ifDNS>>
  /\ SysFrame

\* resetDNS: LoadBackup and listNetworkServices
resetDNSDarwin_Load ==
  /\ platform = "darwin" /\ sys.op = "reset" /\ sys.pc = "begin"
  /\ \E loadOk, listOk \in BOOLEAN :
       /\ Inflict(<<loadOk, listOk>>)
       /\ IF (LoadBackup.exists => loadOk) /\ listOk
          THEN sys' = [sys EXCEPT !.pc = "restore", !.i = 1, !.bk = LoadBackup]
          ELSE sys' = [Ret(sys, TRUE) EXCEPT !.failed = TRUE]
  /\ UNCHANGED <<resolverVars, backupFile, resolvConfBak>>
  /\ SysFrame

\* resetDNS: networksetup -setdnsservers <service> <original...>, or "empty"
\* for a service the backup does not hold; cmd.Run(), its error ignored
resetDNSDarwin_Restore ==
  /\ platform = "darwin" /\ sys.op = "reset" /\ sys.pc = "restore"
  /\ \E ok \in BOOLEAN :
       /\ Inflict(<<ok>>)
       /\ LET original == IF sys.bk.exists THEN sys.bk.services[sys.i] ELSE <<>> IN
          /\ svcDNS' = IF ok THEN [svcDNS EXCEPT ![sys.i] = original] ELSE svcDNS
          /\ sys' = NextUnit([sys EXCEPT !.failed = sys.failed \/ ~ok], sys.i,
                             [sys EXCEPT !.pc = "clear", !.failed = sys.failed \/ ~ok])
  /\ UNCHANGED <<backupFile, resolvConfBak, resolvConfFile, linkDNS, nmProfile, ifDNS>>
  /\ SysFrame

\* resetDNS: ClearBackup(), its error ignored; the flush; return nil
resetDNSDarwin_Clear ==
  /\ platform = "darwin" /\ sys.op = "reset" /\ sys.pc = "clear"
  /\ \E ok \in BOOLEAN : Inflict(<<ok>>) /\ backupFile' = ClearBackup(ok)
  /\ sys' = Ret(sys, FALSE)
  /\ UNCHANGED <<resolverVars, resolvConfBak>>
  /\ SysFrame

\* ------------------------------------------------ Windows (the windows setDNS)
\* setDNS, up to SaveBackup: getInterfaces, getDNSForInterface of each
\* interface (a failed read stores nothing), then the backup
setDNSWindows_Backup ==
  /\ platform = "windows" /\ sys.op = "set" /\ sys.pc = "begin"
  /\ \E listOk, saveOk \in BOOLEAN, readOk \in [Interfaces -> BOOLEAN] :
       /\ Inflict(<<listOk, saveOk>> \o readOk)
       /\ IF listOk /\ saveOk
          THEN /\ backupFile' = SaveBackup([NoBackup EXCEPT !.interfaces =
                    [i \in Interfaces |-> IF readOk[i] THEN ifDNS[i].servers ELSE <<>>]], TRUE)
               /\ sys' = [sys EXCEPT !.pc = "set", !.i = 1, !.wrote = TRUE]
          ELSE /\ backupFile' = backupFile
               /\ sys' = Ret(sys, TRUE)
  /\ UNCHANGED <<resolverVars, resolvConfBak>>
  /\ SysFrame

\* setDNS: netsh interface ipv4 set dnsservers name=<idx> source=static
\* address=<server>, interface by interface; then ipconfig /flushdns
setDNSWindows_Set ==
  /\ platform = "windows" /\ sys.op = "set" /\ sys.pc = "set"
  /\ \E ok \in BOOLEAN :
       /\ Inflict(<<ok>>)
       /\ IF ok
          THEN /\ ifDNS' = [ifDNS EXCEPT ![sys.i] =
                              [source |-> "static", servers |-> <<sys.server>>]]
               /\ sys' = NextUnit(sys, sys.i, Ret(sys, FALSE))
          ELSE /\ ifDNS' = ifDNS
               /\ sys' = Ret(sys, TRUE)
  /\ UNCHANGED <<backupFile, resolvConfBak, resolvConfFile, linkDNS, nmProfile, svcDNS>>
  /\ SysFrame

\* resetDNS: LoadBackup and getInterfaces
resetDNSWindows_Load ==
  /\ platform = "windows" /\ sys.op = "reset" /\ sys.pc = "begin"
  /\ \E loadOk, listOk \in BOOLEAN :
       /\ Inflict(<<loadOk, listOk>>)
       /\ IF (LoadBackup.exists => loadOk) /\ listOk
          THEN sys' = [sys EXCEPT !.pc = "restore", !.i = 1, !.j = 1, !.bk = LoadBackup]
          ELSE sys' = [Ret(sys, TRUE) EXCEPT !.failed = TRUE]
  /\ UNCHANGED <<resolverVars, backupFile, resolvConfBak>>
  /\ SysFrame

\* resetDNS: for an interface the backup holds, netsh set dnsservers
\* source=static address=<original[0]>; for any other, source=dhcp;
\* cmd.Run(), its error ignored
resetDNSWindows_Restore ==
  /\ platform = "windows" /\ sys.op = "reset" /\ sys.pc = "restore"
  /\ \E ok \in BOOLEAN :
       /\ Inflict(<<ok>>)
       /\ LET original == IF sys.bk.exists THEN sys.bk.interfaces[sys.i] ELSE <<>>
              c == [sys EXCEPT !.failed = sys.failed \/ ~ok]
              after == NextUnit(c, sys.i, [c EXCEPT !.pc = "clear"]) IN
          IF Len(original) > 0
          THEN /\ ifDNS' = IF ok THEN [ifDNS EXCEPT ![sys.i] =
                                         [source |-> "static", servers |-> <<original[1]>>]]
                           ELSE ifDNS
               /\ sys' = IF Len(original) > 1 THEN [c EXCEPT !.pc = "add", !.j = 2]
                         ELSE after
          ELSE /\ ifDNS' = IF ok THEN [ifDNS EXCEPT ![sys.i] =
                                         [source |-> "dhcp", servers |-> DhcpDNS]]
                           ELSE ifDNS
               /\ sys' = after
  /\ UNCHANGED <<backupFile, resolvConfBak, resolvConfFile, linkDNS, nmProfile, svcDNS>>
  /\ SysFrame

\* resetDNS: netsh add dnsservers name=<idx> address=<original[j]> for the
\* remaining servers of the interface; cmd.Run(), its error ignored
resetDNSWindows_Add ==
  /\ platform = "windows" /\ sys.op = "reset" /\ sys.pc = "add"
  /\ \E ok \in BOOLEAN :
       /\ Inflict(<<ok>>)
       /\ LET original == sys.bk.interfaces[sys.i]
              c == [sys EXCEPT !.failed = sys.failed \/ ~ok] IN
          /\ ifDNS' = IF ok THEN [ifDNS EXCEPT ![sys.i].servers = @ \o <<original[sys.j]>>]
                      ELSE ifDNS
          /\ sys' = IF sys.j < Len(original) THEN [c EXCEPT !.j = sys.j + 1]
                    ELSE NextUnit([c EXCEPT !.pc = "restore"], sys.i,
                                  [c EXCEPT !.pc = "clear"])
  /\ UNCHANGED <<backupFile, resolvConfBak, resolvConfFile, linkDNS, nmProfile, svcDNS>>
  /\ SysFrame

\* resetDNS: ClearBackup(), its error ignored; the flush; return nil
resetDNSWindows_Clear ==
  /\ platform = "windows" /\ sys.op = "reset" /\ sys.pc = "clear"
  /\ \E ok \in BOOLEAN : Inflict(<<ok>>) /\ backupFile' = ClearBackup(ok)
  /\ sys' = Ret(sys, FALSE)
  /\ UNCHANGED <<resolverVars, resolvConfBak>>
  /\ SysFrame

\* SetDNS / ResetDNS: one step of the platform's mutator
SetDNSStep ==
  \/ setDNSSystemdResolved_Backup \/ setDNSSystemdResolved_Resolvectl
  \/ setDNSNetworkManager_Backup \/ setDNSNetworkManager_Modify
  \/ setDNSNetworkManager_Up
  \/ setDNSResolvConf_Copy \/ setDNSResolvConf_Save \/ setDNSResolvConf_Write
  \/ setDNSDarwin_Backup \/ setDNSDarwin_Set
  \/ setDNSWindows_Backup \/ setDNSWindows_Set

ResetDNSStep ==
  \/ resetDNSSystemdResolved_Revert \/ resetDNSSystemdResolved_Clear
  \/ resetDNSNetworkManager_Modify \/ resetDNSNetworkManager_Up
  \/ resetDNSNetworkManager_Clear
  \/ resetDNSResolvConf_Restore \/ resetDNSResolvConf_Remove
  \/ resetDNSResolvConf_Clear
  \/ resetDNSDarwin_Load \/ resetDNSDarwin_Restore \/ resetDNSDarwin_Clear
  \/ resetDNSWindows_Load \/ resetDNSWindows_Restore \/ resetDNSWindows_Add
  \/ resetDNSWindows_Clear

\* ------------------------------------------------- proxy (internal/dns/proxy.go)
UDPHeld == px.udp = "listening" \/ orphans.udp
TCPHeld == px.tcp = "listening" \/ orphans.tcp

\* Proxy.Stop on Daemon.proxy: cancel, then p.server.Shutdown() if Start has
\* set p.server.  A Start goroutine that has not run yet, and the TCP server,
\* which Stop holds no reference to, stay behind.
StopOrphans ==
  [start |-> orphans.start \/ ~px.started,
   tcpStart |-> orphans.tcpStart \/ px.tcp = "pending",
   udp |-> orphans.udp,
   tcp |-> orphans.tcp \/ px.tcp = "listening"]

\* the handlers of a proxy that Daemon.proxy no longer refers to go on with
\* the Proxy they were started with
OrphanWorkers ==
  [w \in Workers |-> IF work[w].pc = "idle" THEN work[w]
                     ELSE [work[w] EXCEPT !.orphan = TRUE]]

\* Proxy.Start, in its goroutine: set p.server, spawn the TCP goroutine, bind
\* UDP 127.0.0.1:53; the bind error is the return value the goroutine logs
ProxyStart ==
  /\ UNCHANGED extVars
  /\ proxy = "p" /\ ~px.started
  /\ \E ok \in BOOLEAN :
       /\ Inflict(<<ok>>)
       /\ px' = [px EXCEPT !.started = TRUE,
                           !.udp = IF ok /\ ~UDPHeld THEN "listening" ELSE "failed",
                           !.tcp = "pending"]
  /\ UNCHANGED <<hostVars, daemonVars, orphans, sys, hist>>
  /\ crashes' = crashes

\* the TCP goroutine of Proxy.Start: bind TCP 127.0.0.1:53, log an error
ProxyStartTCP ==
  /\ UNCHANGED extVars
  /\ px.tcp = "pending"
  /\ \E ok \in BOOLEAN :
       /\ Inflict(<<ok>>)
       /\ px' = [px EXCEPT !.tcp = IF ok /\ ~TCPHeld THEN "listening" ELSE "failed"]
  /\ UNCHANGED <<hostVars, daemonVars, orphans, sys, hist>>
  /\ crashes' = crashes

\* Proxy.Start of a proxy that was stopped before its goroutine ran
OrphanStart ==
  /\ UNCHANGED extVars
  /\ orphans.start
  /\ \E ok \in BOOLEAN :
       /\ Inflict(<<ok>>)
       /\ orphans' = [orphans EXCEPT !.start = FALSE, !.tcpStart = TRUE,
                                     !.udp = @ \/ (ok /\ ~UDPHeld)]
  /\ UNCHANGED <<hostVars, daemonVars, px, sys, hist>>
  /\ crashes' = crashes

\* the TCP goroutine of a proxy that was stopped
OrphanStartTCP ==
  /\ UNCHANGED extVars
  /\ orphans.tcpStart
  /\ \E ok \in BOOLEAN :
       /\ Inflict(<<ok>>)
       /\ orphans' = [orphans EXCEPT !.tcpStart = FALSE,
                                     !.tcp = @ \/ (ok /\ ~TCPHeld)]
  /\ UNCHANGED <<hostVars, daemonVars, px, sys, hist>>
  /\ crashes' = crashes

\* ------------------------------------------------------ daemon (Daemon.Run)
DefaultConfig == [Profile |-> "", ServerURL |-> DefaultServerURL, Enabled |-> FALSE,
                  Forwarders |-> <<>>]

\* config.Save: a failed write leaves config.json as it was
Save(cfg, ok) == IF ok THEN cfg ELSE cfgFile

\* New and the first line of Run: config.Load, or config.Default on error
Start ==
  /\ UNCHANGED extVars
  /\ pc[Main] = "down"
  /\ \E loadOk \in BOOLEAN : Inflict(<<loadOk>>) /\ config' = IF loadOk THEN cfgFile ELSE DefaultConfig
  /\ pc' = [pc EXCEPT ![Main] = "recover", ![Sig] = "idle"]
  /\ hist' = [hist EXCEPT !.recovered = "no", !.total = 0, !.blocked = 0]
  /\ UNCHANGED <<hostVars, req, res, running, proxy, mu, listener, proxyVars, sys>>
  /\ crashes' = crashes

\* Run: RestoreFromBackupIfNeeded, up to its call of ResetDNS
Recover ==
  /\ UNCHANGED extVars
  /\ pc[Main] = "recover"
  /\ IF HasPendingRestore
     THEN /\ sys' = Call("reset", Main, "")
          /\ pc' = [pc EXCEPT ![Main] = "recovering"]
     ELSE /\ sys' = sys
          /\ pc' = [pc EXCEPT ![Main] = "bind"]
  /\ UNCHANGED <<hostVars, req, res, config, running, proxy, mu, listener,
                 proxyVars, hist>>
  /\ faults' = faults
  /\ crashes' = crashes

\* RestoreFromBackupIfNeeded after ResetDNS: return its error, or ClearBackup's
RecoverFinish ==
  /\ UNCHANGED extVars
  /\ pc[Main] = "recovering" /\ sys.pc = "ret"
  /\ \E ok \in BOOLEAN :
       /\ Inflict(<<ok>>)
       /\ backupFile' = IF sys.err THEN backupFile ELSE ClearBackup(ok)
       /\ hist' = [Returned(hist, sys) EXCEPT
                     !.recovered = IF ~sys.err /\ (ok \/ ~backupFile.exists)
                                   THEN "ok" ELSE "failed"]
  /\ sys' = NoCall
  /\ pc' = [pc EXCEPT ![Main] = "bind"]
  /\ UNCHANGED <<platform, resolverVars, resolvConfBak, cfgFile, orig, req, res,
                 config, running, proxy, mu, listener, proxyVars>>
  /\ crashes' = crashes

\* Run: remove the old socket file and listen; a failed listen ends Run
Bind ==
  /\ UNCHANGED extVars
  /\ pc[Main] = "bind"
  /\ \E ok \in BOOLEAN :
       /\ Inflict(<<ok>>)
       /\ listener' = ok
       /\ pc' = [pc EXCEPT ![Main] = IF ok THEN "auto" ELSE "down"]
  /\ UNCHANGED <<hostVars, req, res, config, running, proxy, mu, proxyVars, sys, hist>>
  /\ crashes' = crashes

\* Run: auto-start when the loaded config is enabled and has a profile
AutoEnableAnyProfile ==
  /\ UNCHANGED extVars
  /\ pc[Main] = "auto"
  /\ IF config.Enabled
     THEN /\ pc' = [pc EXCEPT ![Main] = "enable"]
          /\ req' = [req EXCEPT ![Main] = "enable"]
     ELSE /\ pc' = [pc EXCEPT ![Main] = "accept"]
          /\ req' = req
  /\ UNCHANGED <<hostVars, res, config, running, proxy, mu, listener, proxyVars,
                 sys, hist>>
  /\ faults' = faults
  /\ crashes' = crashes
AutoEnable ==
  /\ UNCHANGED extVars
  /\ pc[Main] = "auto"
  /\ IF config.Enabled /\ config.Profile # ""
     THEN /\ pc' = [pc EXCEPT ![Main] = "enable"]
          /\ req' = [req EXCEPT ![Main] = "enable"]
     ELSE /\ pc' = [pc EXCEPT ![Main] = "accept"]
          /\ req' = req
  /\ UNCHANGED <<hostVars, res, config, running, proxy, mu, listener, proxyVars,
                 sys, hist>>
  /\ faults' = faults
  /\ crashes' = crashes

\* Run: the auto-start has returned (its error only logged); accept loop
AutoEnableDone ==
  /\ UNCHANGED extVars
  /\ pc[Main] = "ret"
  /\ pc' = [pc EXCEPT ![Main] = "accept"]
  /\ req' = [req EXCEPT ![Main] = "none"]
  /\ res' = [res EXCEPT ![Main] = "none"]
  /\ UNCHANGED <<hostVars, config, running, proxy, mu, listener, proxyVars, sys, hist>>
  /\ faults' = faults
  /\ crashes' = crashes

\* Run's accept loop and handleConnection up to the switch on req.Action
Accept(t) ==
  /\ UNCHANGED extVars
  /\ pc[Main] = "accept" /\ listener /\ pc[t] = "idle"
  /\ \E a \in {"enable", "disable"} :
       /\ req' = [req EXCEPT ![t] = a]
       /\ pc' = [pc EXCEPT ![t] = a]
  /\ UNCHANGED <<hostVars, res, config, running, proxy, mu, listener, proxyVars,
                 sys, hist>>
  /\ faults' = faults
  /\ crashes' = crashes

\* handleConnection: encode the response, close the connection
Respond(t) ==
  /\ UNCHANGED extVars
  /\ pc[t] = "ret"
  /\ pc' = [pc EXCEPT ![t] = "idle"]
  /\ req' = [req EXCEPT ![t] = "none"]
  /\ res' = [res EXCEPT ![t] = "none"]
  /\ UNCHANGED <<hostVars, config, running, proxy, mu, listener, proxyVars, sys, hist>>
  /\ faults' = faults
  /\ crashes' = crashes

\* --------------------------------------------- daemon (enable and disable)
\* Daemon.enable without the check of config.Profile
EnableBeginAnyProfile(t) ==
  /\ UNCHANGED extVars
  /\ pc[t] = "enable" /\ mu = NoThread
  /\ IF running
     THEN /\ pc' = [pc EXCEPT ![t] = "ret"]
          /\ res' = [res EXCEPT ![t] = "ok"]
          /\ UNCHANGED <<mu, proxy, px, sys, hist>>
     ELSE /\ mu' = t
          /\ proxy' = "p"
          /\ px' = NewProxy(config)
          /\ sys' = Call("set", t, Local)
          /\ hist' = [hist EXCEPT !.before = GetCurrentDNS, !.enableFailed = FALSE]
          /\ pc' = [pc EXCEPT ![t] = "setdns"]
          /\ res' = res
  /\ UNCHANGED <<hostVars, req, config, running, listener, orphans>>
  /\ faults' = faults
  /\ crashes' = crashes

\* Daemon.enable up to system.SetDNS: lock, the two early returns, NewProxy,
\* the goroutine that will run Proxy.Start
EnableBegin(t) ==
  /\ UNCHANGED extVars
  /\ pc[t] = "enable" /\ mu = NoThread
  /\ IF running \/ config.Profile = ""
     THEN /\ pc' = [pc EXCEPT ![t] = "ret"]
          /\ res' = [res EXCEPT ![t] = IF running THEN "ok"
                                       ELSE "no profile configured"]
          /\ UNCHANGED <<mu, proxy, px, sys, hist>>
     ELSE /\ mu' = t
          /\ proxy' = "p"
          /\ px' = NewProxy(config)
          /\ sys' = Call("set", t, Local)
          /\ hist' = [hist EXCEPT !.before = GetCurrentDNS, !.enableFailed = FALSE]
          /\ pc' = [pc EXCEPT ![t] = "setdns"]
          /\ res' = res
  /\ UNCHANGED <<hostVars, req, config, running, listener, orphans>>
  /\ faults' = faults
  /\ crashes' = crashes

\* Daemon.enable after system.SetDNS, with d.proxy kept when SetDNS failed
EnableFinishKeepsProxy(t) ==
  /\ pc[t] = "setdns" /\ sys.who = t /\ sys.op = "set" /\ sys.pc = "ret"
  /\ IF sys.err
     THEN /\ orphans' = StopOrphans
          /\ work' = OrphanWorkers
          /\ px' = NoPx
          /\ proxy' = proxy
          /\ res' = [res EXCEPT ![t] = "failed to set system DNS"]
          /\ UNCHANGED <<running, config, cfgFile, faults>>
     ELSE /\ running' = TRUE
          /\ config' = [config EXCEPT !.Enabled = TRUE]
          /\ \E ok \in BOOLEAN : Inflict(<<ok>>) /\ cfgFile' = Save(config', ok)
          /\ res' = [res EXCEPT ![t] = "ok"]
          /\ UNCHANGED <<orphans, px, proxy, work>>
  /\ hist' = [Returned(hist, sys) EXCEPT !.enableFailed = sys.err]
  /\ sys' = NoCall
  /\ mu' = NoThread
  /\ pc' = [pc EXCEPT ![t] = "ret"]
  /\ UNCHANGED <<platform, backupFile, resolverVars, resolvConfBak, orig, req,
                 listener, peer, unitVars>>
  /\ crashes' = crashes

\* Daemon.enable after system.SetDNS: on error stop and drop the proxy and
\* return the error; otherwise running, Enabled, config.Save (error ignored)
EnableFinish(t) ==
  /\ pc[t] = "setdns" /\ sys.who = t /\ sys.op = "set" /\ sys.pc = "ret"
  /\ IF sys.err
     THEN /\ orphans' = StopOrphans
          /\ work' = OrphanWorkers
          /\ px' = NoPx
          /\ proxy' = "nil"
          /\ res' = [res EXCEPT ![t] = "failed to set system DNS"]
          /\ UNCHANGED <<running, config, cfgFile, faults>>
     ELSE /\ running' = TRUE
          /\ config' = [config EXCEPT !.Enabled = TRUE]
          /\ \E ok \in BOOLEAN : Inflict(<<ok>>) /\ cfgFile' = Save(config', ok)
          /\ res' = [res EXCEPT ![t] = "ok"]
          /\ UNCHANGED <<orphans, px, proxy, work>>
  /\ hist' = [Returned(hist, sys) EXCEPT !.enableFailed = sys.err]
  /\ sys' = NoCall
  /\ mu' = NoThread
  /\ pc' = [pc EXCEPT ![t] = "ret"]
  /\ UNCHANGED <<platform, backupFile, resolverVars, resolvConfBak, orig, req,
                 listener, peer, unitVars>>
  /\ crashes' = crashes

\* Daemon.disable up to system.ResetDNS: lock, the early return when not
\* running, Proxy.Stop
DisableBegin(t) ==
  /\ pc[t] = "disable" /\ mu = NoThread
  /\ IF ~running
     THEN /\ pc' = [pc EXCEPT ![t] = "ret"]
          /\ res' = [res EXCEPT ![t] = "ok"]
          /\ UNCHANGED <<mu, proxy, px, orphans, work, sys>>
     ELSE /\ mu' = t
          /\ IF proxy # "nil"
             THEN orphans' = StopOrphans /\ work' = OrphanWorkers /\ px' = NoPx
             ELSE UNCHANGED <<orphans, work, px>>
          /\ proxy' = "nil"
          /\ sys' = Call("reset", t, "")
          /\ pc' = [pc EXCEPT ![t] = "resetdns"]
          /\ res' = res
  /\ UNCHANGED <<hostVars, req, config, running, listener, hist, peer, unitVars>>
  /\ faults' = faults
  /\ crashes' = crashes

\* Daemon.disable after system.ResetDNS, whose error is dropped: not running,
\* Enabled false, config.Save (error ignored); return nil
DisableFinish(t) ==
  /\ UNCHANGED extVars
  /\ pc[t] = "resetdns" /\ sys.who = t /\ sys.op = "reset" /\ sys.pc = "ret"
  /\ running' = FALSE
  /\ config' = [config EXCEPT !.Enabled = FALSE]
  /\ \E ok \in BOOLEAN : Inflict(<<ok>>) /\ cfgFile' = Save(config', ok)
  /\ res' = [res EXCEPT ![t] = "ok"]
  /\ hist' = Returned(hist, sys)
  /\ sys' = NoCall
  /\ mu' = NoThread
  /\ pc' = [pc EXCEPT ![t] = "ret"]
  /\ UNCHANGED <<platform, backupFile, resolverVars, resolvConfBak, orig, req,
                 proxy, listener, proxyVars>>
  /\ crashes' = crashes

\* SIGKILL (or a crash) of the daemon process: its memory, goroutines and
\* sockets are gone, the host keeps its files and resolver configuration
Crash ==
  /\ pc[Main] # "down"
  /\ crashes < MaxCrashes
  /\ crashes' = crashes + 1
  /\ faults' = faults
  /\ pc' = [t \in Threads |-> IF t = Main THEN "down" ELSE "idle"]
  /\ req' = [t \in Threads |-> "none"]
  /\ res' = [t \in Threads |-> "none"]
  /\ config' = DefaultConfig
  /\ running' = FALSE
  /\ proxy' = "nil"
  /\ mu' = NoThread
  /\ listener' = FALSE
  /\ px' = NoPx
  /\ orphans' = NoOrphans
  /\ sys' = NoCall
  /\ hist' = [(IF sys.pc = "ret" THEN Returned(hist, sys)
               ELSE IF sys.op # "none"
                    THEN [hist EXCEPT !.last = sys.op \o "-killed",
                                      !.lastWrote = sys.wrote]
                    ELSE hist)
              EXCEPT !.enableFailed = FALSE, !.recovered = "no"]
  /\ work' = NoWork
  /\ UNCHANGED <<hostVars, peer, unitVars>>

\* the control plane with the mutators of every platform
Next ==
  \/ SetDNSStep
  \/ ResetDNSStep
  \/ Start \/ Recover \/ RecoverFinish \/ Bind \/ AutoEnable \/ AutoEnableDone
  \/ \E t \in Handlers : Accept(t) \/ Respond(t)
  \/ \E t \in Threads : EnableBegin(t) \/ EnableFinish(t)
  \/ \E t \in Threads : DisableBegin(t) \/ DisableFinish(t)
  \/ Crash

Spec == Init /\ [][Next]_vars

\* the control plane with the goroutines of its proxies, on a
\* systemd-resolved host
InitProxy == Init /\ platform = "systemd-resolved"

NextProxy ==
  \/ setDNSSystemdResolved_Backup \/ setDNSSystemdResolved_Resolvectl
  \/ resetDNSSystemdResolved_Revert \/ resetDNSSystemdResolved_Clear
  \/ ProxyStart \/ ProxyStartTCP \/ OrphanStart \/ OrphanStartTCP
  \/ Start \/ Recover \/ RecoverFinish \/ Bind \/ AutoEnable \/ AutoEnableDone
  \/ \E t \in Handlers : Accept(t) \/ Respond(t)
  \/ \E t \in Threads : EnableBegin(t) \/ EnableFinish(t)
  \/ \E t \in Threads : DisableBegin(t) \/ DisableFinish(t)
  \/ Crash

SpecProxy == InitProxy /\ [][NextProxy]_vars

TypeOK ==
  /\ platform \in Platforms
  /\ mu \in Threads \cup {NoThread}
  /\ running \in BOOLEAN
  /\ proxy \in {"nil", "p"}
  /\ sys.op \in {"none", "set", "reset"}
  /\ (sys.op # "none") => (mu = sys.who \/ sys.who \in {Main, Peer})
  /\ (running /\ mu = NoThread => proxy = "p")

\* ================================================================ properties
\* SetDNS or ResetDNS has returned to its caller, which has not yet gone on
SetReturned == sys.op = "set" /\ sys.pc = "ret"
ResetReturned == sys.op = "reset" /\ sys.pc = "ret"

\* the step in which Daemon.enable returns "failed to set system DNS"
EnableFails ==
  \E t \in Threads : /\ pc[t] = "setdns" /\ pc'[t] = "ret"
                     /\ res'[t] = "failed to set system DNS"

\* the step in which a disable request returns while the last enable has
\* failed in SetDNS and no enable has begun since
DisableAfterFailedEnable ==
  /\ hist.enableFailed
  /\ \E t \in Threads : req[t] = "disable" /\ pc[t] # "ret" /\ pc'[t] = "ret"

\* no request is in flight and the daemon serves its socket
Quiescent ==
  /\ pc[Main] = "accept" /\ mu = NoThread
  /\ \A t \in Handlers : pc[t] = "idle"

\* C1: SetDNS never changes the resolver configuration while no backup file
\* is on disk: the backup is written before the first mutating step, on every
\* platform.
C1_BackupBeforeMutation ==
  [][(sys.op = "set" /\ Resolver' # Resolver) => backupFile.exists]_vars

\* C2: when a restore step of ResetDNS has failed (a tool invocation or a file
\* write), the backup file that was on disk is still there when ResetDNS
\* returns: the file is deleted only after every restore step succeeded.
C2_BackupKeptUntilRestored ==
  (ResetReturned /\ sys.had /\ sys.failed) => backupFile.exists

\* C3: when SetDNS returns success a backup file is on disk, and when ResetDNS
\* returns success none is, also when writing or removing the file fails.
C3_BackupIffDiverted ==
  /\ (SetReturned /\ ~sys.err) => backupFile.exists
  /\ (ResetReturned /\ ~sys.err) => ~backupFile.exists

\* C4: round trip: when ResetDNS completes after a SetDNS that succeeded,
\* GetCurrentDNS is the list it was before that SetDNS.
C4_RoundTrip ==
  (ResetReturned /\ ~sys.err /\ hist.last = "set-ok")
    => GetCurrentDNS = hist.before

\* C5: when SetDNS fails after it has written the backup, the backup file
\* stays on disk, and the next ResetDNS that completes, also one of a fresh
\* process, restores the original resolver configuration.
C5_PartialSetRollsBack ==
  /\ (SetReturned /\ sys.err /\ sys.wrote) => backupFile.exists
  /\ (ResetReturned /\ ~sys.err /\ hist.last = "set-err" /\ hist.lastWrote)
       => Resolver = orig

\* C6: crash recovery: ResetDNS of the recovery runs before the control socket
\* is bound and before any enable; after a recovery that succeeded the
\* resolver configuration is the original one and the backup file is gone;
\* after one that failed the backup file is still on disk.
C6_CrashRecovery ==
  /\ (sys.op = "reset" /\ sys.who = Main) => (~listener /\ ~running)
  /\ (pc[Main] = "bind" /\ hist.recovered = "ok")
       => (Resolver = orig /\ ~backupFile.exists)
  /\ (pc[Main] = "bind" /\ hist.recovered = "failed") => backupFile.exists

\* C7: when SetDNS fails during enable, the proxy is dropped, the error is
\* returned, the daemon is not running and a backup that was written remains;
\* a disable request that follows restores the resolver configuration and
\* removes the backup.
C7_DisableCleansUpFailedEnable ==
  [][/\ EnableFails => (proxy' = "nil" /\ ~running' /\ (sys.wrote => backupFile'.exists))
     /\ DisableAfterFailedEnable => (Resolver' = orig /\ ~backupFile'.exists)]_vars

\* C8: when the resolver mutation fails in the middle during enable, the
\* daemon has reset the resolver before enable returns the error: no part
\* of the resolver configuration points at 127.0.0.1 after a failed enable.
C8_FailedEnableResets ==
  [][EnableFails => ~PartlyDiverted']_vars

\* C9: once all enable and disable requests of a daemon process have
\* returned, either it is running and the system DNS is 127.0.0.1, or it is
\* not running and the system DNS is the original one.
C9_Linearizable ==
  (Quiescent /\ crashes = 0)
    => \/ running /\ GetCurrentDNS = <<Local>>
       \/ ~running /\ GetCurrentDNS = CurrentDNS(orig)

\* C10: when the proxy cannot bind 127.0.0.1:53, UDP or TCP, enable does not
\* report success and the system resolver is not left pointing at 127.0.0.1
\* with no proxy listening.
C10_BindFailureSurfaced ==
  (proxy = "p" /\ (px.udp = "failed" \/ px.tcp = "failed"))
    => ~(running /\ Diverted)


\* ============================================== a second daemon instance
\* New and Run in another process, while the first one serves its socket
SecondNew ==
  /\ peer.kind = "none" /\ listener
  /\ peer' = [kind |-> "daemon", pc |-> "recover"]
  /\ UNCHANGED <<hostVars, daemonVars, proxyVars, sys, faults, crashes, hist,
                 work, unitVars>>

\* Run of the second instance: RestoreFromBackupIfNeeded, up to ResetDNS
SecondRecover ==
  /\ peer.kind = "daemon" /\ peer.pc = "recover" /\ sys.op = "none"
  /\ IF HasPendingRestore
     THEN /\ sys' = Call("reset", Peer, "")
          /\ peer' = [peer EXCEPT !.pc = "recovering"]
     ELSE /\ sys' = sys
          /\ peer' = [peer EXCEPT !.pc = "bind"]
  /\ UNCHANGED <<hostVars, daemonVars, proxyVars, faults, crashes, hist, work, unitVars>>

\* RestoreFromBackupIfNeeded of the second instance, after ResetDNS
SecondRecoverFinish ==
  /\ peer.kind = "daemon" /\ peer.pc = "recovering"
  /\ sys.who = Peer /\ sys.pc = "ret"
  /\ \E ok \in BOOLEAN :
       /\ Inflict(<<ok>>)
       /\ backupFile' = IF sys.err THEN backupFile ELSE ClearBackup(ok)
  /\ hist' = Returned(hist, sys)
  /\ sys' = NoCall
  /\ peer' = [peer EXCEPT !.pc = "bind"]
  /\ UNCHANGED <<platform, resolverVars, resolvConfBak, cfgFile, orig, daemonVars,
                 proxyVars, crashes, work, unitVars>>

\* Run of the second instance: os.Remove(SocketPath), its error ignored, and
\* net.Listen, which fails while the socket file exists
SecondListen ==
  /\ peer.kind = "daemon" /\ peer.pc = "bind"
  /\ \E removeOk, listenOk \in BOOLEAN :
       /\ Inflict(<<removeOk, listenOk>>)
       /\ peer' = [peer EXCEPT !.pc = IF listenOk /\ (removeOk \/ ~listener)
                                      THEN "listening" ELSE "exited"]
  /\ UNCHANGED <<hostVars, daemonVars, proxyVars, sys, crashes, hist, work, unitVars>>

\* one daemon on a systemd-resolved host, and the start of a second one
NextSecond ==
  \/ setDNSSystemdResolved_Backup \/ setDNSSystemdResolved_Resolvectl
  \/ resetDNSSystemdResolved_Revert \/ resetDNSSystemdResolved_Clear
  \/ Start \/ Recover \/ RecoverFinish \/ Bind \/ AutoEnable \/ AutoEnableDone
  \/ \E t \in Handlers : Accept(t) \/ Respond(t)
  \/ \E t \in Threads : EnableBegin(t) \/ EnableFinish(t)
  \/ \E t \in Threads : DisableBegin(t) \/ DisableFinish(t)
  \/ Crash
  \/ SecondNew \/ SecondRecover \/ SecondRecoverFinish \/ SecondListen

SpecSecond == InitProxy /\ [][NextSecond]_vars

\* a step of the second instance
SecondStep == peer' # peer \/ (sys.who = Peer /\ sys' # sys)

\* C11: while a daemon serves the control socket, a second instance that
\* starts fails at the socket bind: it never listens on the socket path, and
\* no step of it changes the resolver configuration or the backup file.
C11_SecondInstanceFails ==
  [][/\ peer'.pc # "listening"
     /\ SecondStep => (Resolver' = Resolver /\ backupFile' = backupFile)]_vars


\* ------------------------------------------ the dns-reset command (cli.go)
\* "filterdns-client dns-reset", run by the service manager after the daemon
\* stopped: system.ResetDNS()
DnsReset ==
  /\ pc[Main] = "down" /\ peer.kind = "none" /\ sys.op = "none"
  /\ peer' = [kind |-> "dns-reset", pc |-> "resetting"]
  /\ sys' = Call("reset", Peer, "")
  /\ UNCHANGED <<hostVars, daemonVars, proxyVars, faults, crashes, hist, work, unitVars>>

\* dns-reset: ResetDNS returned; the command prints the outcome and exits
DnsResetDone ==
  /\ peer.kind = "dns-reset" /\ sys.who = Peer /\ sys.pc = "ret"
  /\ hist' = Returned(hist, sys)
  /\ sys' = NoCall
  /\ peer' = NoPeer
  /\ UNCHANGED <<hostVars, daemonVars, proxyVars, faults, crashes, work, unitVars>>

NextCli == Next \/ DnsReset \/ DnsResetDone

\* the daemon and the dns-reset command on one host, on every platform
SpecCli == Init /\ [][NextCli]_vars

\* C12: a ResetDNS call that began with no backup file on disk is a no-op:
\* no step of it changes the resolver configuration, and, when none of its
\* tools failed, it returns success.
C12_ResetWithoutBackupIsNoOp ==
  [][(sys.op = "reset" /\ ~sys.had)
       => /\ Resolver' = Resolver
          /\ (sys'.pc = "ret" /\ ~sys'.failed => ~sys'.err)]_vars


\* ------------------------------------------------- shutdown (Daemon.Shutdown)
\* Run's signal goroutine: SIGINT or SIGTERM arrives, Shutdown cancels the
\* context
Signal ==
  /\ pc[Main] = "accept" /\ pc[Sig] = "idle"
  /\ pc' = [pc EXCEPT ![Sig] = "shutdown"]
  /\ UNCHANGED <<hostVars, req, res, config, running, proxy, mu, listener,
                 proxyVars, sys, faults, crashes, hist, extVars>>

\* Shutdown: "if d.running { d.disable() }", running read without the lock
ShutdownCheck ==
  /\ pc[Sig] = "shutdown"
  /\ pc' = [pc EXCEPT ![Sig] = IF running THEN "disable" ELSE "close"]
  /\ UNCHANGED <<hostVars, req, res, config, running, proxy, mu, listener,
                 proxyVars, sys, faults, crashes, hist, extVars>>

\* Shutdown: listener.Close(), os.Remove(SocketPath)
ShutdownClose ==
  /\ pc[Sig] \in {"close", "ret"}
  /\ listener' = FALSE
  /\ pc' = [pc EXCEPT ![Sig] = "closed"]
  /\ res' = [res EXCEPT ![Sig] = "none"]
  /\ UNCHANGED <<hostVars, req, config, running, proxy, mu, proxyVars, sys,
                 faults, crashes, hist, extVars>>

\* Run: Accept fails on the closed listener, the context is done, Run returns
\* nil and the process ends with whatever its handlers were doing
Exit ==
  /\ pc[Main] = "accept" /\ pc[Sig] = "closed"
  /\ pc' = [t \in Threads |-> IF t = Main THEN "down"
                              ELSE IF t = Sig THEN "exited" ELSE "idle"]
  /\ req' = [t \in Threads |-> "none"]
  /\ res' = [t \in Threads |-> "none"]
  /\ config' = DefaultConfig
  /\ running' = FALSE
  /\ proxy' = "nil"
  /\ mu' = NoThread
  /\ px' = NoPx
  /\ orphans' = NoOrphans
  /\ sys' = NoCall
  /\ hist' = [(IF sys.pc = "ret" THEN Returned(hist, sys)
               ELSE IF sys.op # "none"
                    THEN [hist EXCEPT !.last = sys.op \o "-killed",
                                      !.lastWrote = sys.wrote]
                    ELSE hist)
              EXCEPT !.enableFailed = FALSE, !.recovered = "no"]
  /\ work' = NoWork
  /\ UNCHANGED <<hostVars, listener, faults, crashes, peer, unitVars>>

\* the daemon with its signal goroutine on a macOS host (launchd runs no
\* command after the daemon stops)
InitShutdown == Init /\ platform = "darwin"

NextShutdown ==
  \/ setDNSDarwin_Backup \/ setDNSDarwin_Set
  \/ resetDNSDarwin_Load \/ resetDNSDarwin_Restore \/ resetDNSDarwin_Clear
  \/ Start \/ Recover \/ RecoverFinish \/ Bind \/ AutoEnable \/ AutoEnableDone
  \/ \E t \in Handlers : Accept(t) \/ Respond(t)
  \/ \E t \in Threads : EnableBegin(t) \/ EnableFinish(t)
  \/ \E t \in Threads : DisableBegin(t) \/ DisableFinish(t)
  \/ Signal \/ ShutdownCheck \/ ShutdownClose \/ Exit

SpecShutdown == InitShutdown /\ [][NextShutdown]_vars

\* the daemon process has ended through Shutdown
Exited == pc[Main] = "down" /\ pc[Sig] = "exited"

\* C13: once a Shutdown triggered by SIGINT/SIGTERM has completed and the
\* daemon has exited, no part of the resolver configuration points at
\* 127.0.0.1 and the control socket is gone, whatever requests were in flight.
C13_ShutdownRestoresDNS == Exited => (~PartlyDiverted /\ ~listener)


\* --------------------------------------- daemon (set_config and status)
\* the forwarder lists and the configs a set_config request may carry
FwdLists == {<<>>, <<[Domain |-> <<"t", "s", ".", "n", "e", "t">>,
                      Server |-> "100.100.100.100"]>>}
ReqConfigs ==
  {[Profile |-> "", ServerURL |-> DefaultServerURL, Enabled |-> e,
    Forwarders |-> <<>>] : e \in BOOLEAN}
  \cup {[Profile |-> "home", ServerURL |-> u, Enabled |-> TRUE, Forwarders |-> f] :
          u \in ServerURLs, f \in FwdLists}

\* a set_config request, from the accept loop to the return of
\* Daemon.setConfig: lock, needsRestart, d.config = cfg, config.Save (its
\* error returned), then the restart (Stop, NewProxy, go Start) or
\* UpdateForwarders on the proxy there is
SetConfig(t) ==
  /\ pc[Main] = "accept" /\ listener /\ pc[t] = "idle" /\ mu = NoThread
  /\ \E cfg \in ReqConfigs, ok \in BOOLEAN :
       LET needsRestart == running /\ (cfg.Profile # config.Profile
                                        \/ cfg.ServerURL # config.ServerURL) IN
       /\ Inflict(<<ok>>)
       /\ config' = cfg
       /\ cfgFile' = Save(cfg, ok)
       /\ res' = [res EXCEPT ![t] = IF ok THEN "ok" ELSE "failed to save config"]
       /\ IF ~ok THEN UNCHANGED <<proxy, px, orphans, work>>
          ELSE IF needsRestart
          THEN /\ IF proxy # "nil"
                  THEN orphans' = StopOrphans /\ work' = OrphanWorkers
                  ELSE UNCHANGED <<orphans, work>>
               /\ px' = NewProxy(cfg)
               /\ proxy' = "p"
          ELSE IF proxy # "nil"
          THEN /\ px' = [px EXCEPT !.forwarders = NewForwarderMatcher(cfg.Forwarders)]
               /\ UNCHANGED <<proxy, orphans, work>>
          ELSE UNCHANGED <<proxy, px, orphans, work>>
  /\ req' = [req EXCEPT ![t] = "set_config"]
  /\ pc' = [pc EXCEPT ![t] = "ret"]
  /\ UNCHANGED <<platform, backupFile, resolverVars, resolvConfBak, orig, running,
                 mu, listener, sys, crashes, hist, peer, unitVars>>

\* a status request, from the accept loop to the return of Daemon.getStatus:
\* read lock, the counters of d.proxy if there is one
Status(t) ==
  /\ pc[Main] = "accept" /\ listener /\ pc[t] = "idle" /\ mu = NoThread
  /\ req' = [req EXCEPT ![t] = "status"]
  /\ res' = [res EXCEPT ![t] = "ok"]
  /\ pc' = [pc EXCEPT ![t] = "ret"]
  /\ hist' = [hist EXCEPT !.total = IF proxy # "nil" THEN px.queriesTotal ELSE 0,
                          !.blocked = IF proxy # "nil" THEN px.queriesBlocked ELSE 0]
  /\ UNCHANGED <<hostVars, config, running, proxy, mu, listener, proxyVars, sys,
                 faults, crashes, extVars>>

\* the control plane with set_config and the goroutines of its proxies, on a
\* systemd-resolved host
NextConfig ==
  \/ setDNSSystemdResolved_Backup \/ setDNSSystemdResolved_Resolvectl
  \/ resetDNSSystemdResolved_Revert \/ resetDNSSystemdResolved_Clear
  \/ ProxyStart \/ ProxyStartTCP \/ OrphanStart \/ OrphanStartTCP
  \/ Start \/ Recover \/ Bind \/ AutoEnable
  \/ \E t \in Handlers : Accept(t) \/ Respond(t) \/ SetConfig(t)
  \/ \E t \in Threads : EnableBegin(t) \/ EnableFinish(t)
  \/ \E t \in Threads : DisableBegin(t) \/ DisableFinish(t)

SpecConfig == InitProxy /\ [][NextConfig]_vars


\* the control plane with set_config, on a systemd-resolved host; the
\* goroutines of the proxies are not scheduled
NextControl ==
  \/ setDNSSystemdResolved_Backup \/ setDNSSystemdResolved_Resolvectl
  \/ resetDNSSystemdResolved_Revert \/ resetDNSSystemdResolved_Clear
  \/ Start \/ Recover \/ Bind \/ AutoEnable
  \/ \E t \in Handlers : Accept(t) \/ Respond(t) \/ SetConfig(t)
  \/ \E t \in Threads : EnableBegin(t) \/ EnableFinish(t)
  \/ \E t \in Threads : DisableBegin(t) \/ DisableFinish(t)

SpecControl == InitProxy /\ [][NextControl]_vars

\* the step in which thread t runs Daemon.enable up to its return or its
\* SetDNS call
EnableStep(t) == pc[t] = "enable" /\ pc'[t] # "enable"

\* what an enable that changes nothing leaves alone
EnableChangesNothing ==
  /\ proxy' = proxy /\ px' = px /\ sys' = sys /\ running' = running
  /\ backupFile' = backupFile /\ Resolver' = Resolver
  /\ config' = config /\ cfgFile' = cfgFile

\* C14 (as stated): an enable request while the configured profile is empty
\* fails with "no profile configured" and changes nothing.
C14_EnableNoProfile ==
  [][\A t \in Handlers :
       (EnableStep(t) /\ config.Profile = "")
         => (res'[t] = "no profile configured" /\ EnableChangesNothing)]_vars

\* C14 (amended): an enable request while the configured profile is empty and
\* the daemon is not running fails with "no profile configured" and changes
\* nothing: no proxy, no SetDNS call, no backup, running stays false, the
\* persisted config is not rewritten.
C14_EnableNoProfileNotRunning ==
  [][\A t \in Handlers :
       (EnableStep(t) /\ config.Profile = "" /\ ~running)
         => (res'[t] = "no profile configured" /\ pc'[t] = "ret"
             /\ EnableChangesNothing)]_vars

C14_Witness ==
  \E t \in Handlers :
    /\ req[t] = "enable" /\ res[t] = "no profile configured"
    /\ config.Profile = "" /\ ~running /\ proxy = "nil" /\ ~backupFile.exists


\* the step in which handler t serves a set_config request that succeeds
SetConfigStep(t) == pc[t] = "idle" /\ req'[t] = "set_config" /\ res'[t] = "ok"

\* C15: a set_config that succeeds persists the new config; if the daemon is
\* running and the profile or the server URL differs, the old proxy is
\* stopped (it keeps no listener) and the proxy of the daemon is a new one
\* built from the new config; otherwise the proxy instance is kept and only
\* its matcher is replaced by the one of the new forwarder list.
C15_SetConfigRestartsProxy ==
  [][\A t \in Handlers :
       SetConfigStep(t) =>
         /\ cfgFile' = config'
         /\ IF running /\ (config'.Profile # config.Profile
                           \/ config'.ServerURL # config.ServerURL)
            THEN /\ px' = NewProxy(config')
                 /\ orphans'.udp = orphans.udp /\ orphans'.tcp = orphans.tcp
            ELSE /\ proxy' = proxy
                 /\ proxy # "nil" =>
                      px' = [px EXCEPT !.forwarders =
                                         NewForwarderMatcher(config'.Forwarders)]]_vars


\* ------------------------------------------ proxy (handleQuery, proxy.go)
\* the names as clients spell them: q.Name is fully qualified, in any case
AskedNames == QNames \cup {ToUpper(<<"a", ".", "t", "s", ".", "n", "e", "t", ".">>)}

\* forwardToServer: the server with port 53 unless it names a port
WithPort(server) ==
  CASE server = "100.100.100.100" -> "100.100.100.100:53"
    [] server = "10.0.0.53" -> "10.0.0.53:53"
    [] OTHER -> server

\* dns.HandleFailed: SERVFAIL with the ID of the request
ServFail(id) == [id |-> id, from |-> "", kind |-> "servfail"]

\* a server of the proxy the daemon refers to is listening
Serving == proxy = "p" /\ (px.udp = "listening" \/ px.tcp = "listening")

\* handleQuery for a message without question: the counter, SERVFAIL
\* (here and in handleQuery(w) the read and the write of p.queriesTotal++ run
\* without another handler in between; handleQuery_Read and handleQuery_Write
\* are the two halves on their own)
handleQuery_NoQuestion(w) ==
  /\ work[w].pc = "idle" /\ Serving /\ px.queriesTotal < MaxQueries
  /\ \E id \in Ids :
       work' = [work EXCEPT ![w] =
                  [NoQuery EXCEPT !.pc = "done", !.id = id, !.reply = ServFail(id)]]
  /\ px' = [px EXCEPT !.queriesTotal = @ + 1, !.received = @ + 1]
  /\ UNCHANGED <<hostVars, daemonVars, orphans, sys, faults, crashes, hist, peer, unitVars>>

\* handleQuery, up to the cache: a query with a question arrives at a
\* worker, the counter
handleQuery(w) ==
  /\ work[w].pc = "idle" /\ Serving /\ px.queriesTotal < MaxQueries
  /\ \E id \in Ids, name \in AskedNames, qtype \in Qtypes :
       work' = [work EXCEPT ![w] =
                  [NoQuery EXCEPT !.pc = "lookup", !.id = id, !.name = name,
                                  !.qtype = qtype, !.question = TRUE,
                                  !.epoch = px.updates]]
  /\ px' = [px EXCEPT !.queriesTotal = @ + 1, !.received = @ + 1]
  /\ UNCHANGED <<hostVars, daemonVars, orphans, sys, faults, crashes, hist, peer, unitVars>>

\* handleQuery with the matcher consulted before the cache
handleQuery_LookupMatchFirst(w) ==
  /\ work[w].pc = "lookup" /\ ~work[w].orphan
  /\ LET qname == ToLower(work[w].name)
         cached == Get(px.cache, qname, work[w].qtype)
         forwarder == Match(px.forwarders, qname) IN
     work' = [work EXCEPT ![w] =
                IF forwarder # ""
                THEN [@ EXCEPT !.pc = "forward", !.route = forwarder]
                ELSE IF cached # NoMsg
                THEN [@ EXCEPT !.pc = "done", !.route = "cache",
                               !.reply = [cached EXCEPT !.id = work[w].id]]
                ELSE [@ EXCEPT !.pc = "forward", !.route = "doh"]]
  /\ UNCHANGED <<hostVars, daemonVars, proxyVars, sys, faults, crashes, hist, peer, unitVars>>

\* handleQuery answering a hit with the cached message as it is stored
handleQuery_LookupKeepId(w) ==
  /\ work[w].pc = "lookup" /\ ~work[w].orphan
  /\ LET qname == ToLower(work[w].name)
         cached == Get(px.cache, qname, work[w].qtype)
         forwarder == Match(px.forwarders, qname) IN
     work' = [work EXCEPT ![w] =
                IF cached # NoMsg
                THEN [@ EXCEPT !.pc = "done", !.route = "cache", !.reply = cached]
                ELSE IF forwarder # ""
                THEN [@ EXCEPT !.pc = "forward", !.route = forwarder]
                ELSE [@ EXCEPT !.pc = "forward", !.route = "doh"]]
  /\ UNCHANGED <<hostVars, daemonVars, proxyVars, sys, faults, crashes, hist, peer, unitVars>>

\* handleQuery: the cache (a hit is answered with the ID of the request),
\* then the matcher
handleQuery_Lookup(w) ==
  /\ work[w].pc = "lookup" /\ ~work[w].orphan
  /\ LET qname == ToLower(work[w].name)
         cached == Get(px.cache, qname, work[w].qtype)
         forwarder == Match(px.forwarders, qname) IN
     work' = [work EXCEPT ![w] =
                IF cached # NoMsg
                THEN [@ EXCEPT !.pc = "done", !.route = "cache",
                               !.reply = [cached EXCEPT !.id = work[w].id]]
                ELSE IF forwarder # ""
                THEN [@ EXCEPT !.pc = "forward", !.route = forwarder]
                ELSE [@ EXCEPT !.pc = "forward", !.route = "doh"]]
  /\ UNCHANGED <<hostVars, daemonVars, proxyVars, sys, faults, crashes, hist, peer, unitVars>>

\* forwardToServer: one client.Exchange; SERVFAIL on error, otherwise
\* Cache.Set and the response
forwardToServer(w) ==
  /\ work[w].pc = "forward" /\ work[w].route \in SplitServers /\ ~work[w].orphan
  /\ \E outcome \in Outcomes :
       LET resp == [id |-> work[w].id, from |-> WithPort(work[w].route),
                    kind |-> outcome] IN
       /\ work' = [work EXCEPT ![w] =
                     [@ EXCEPT !.pc = "done", !.outcome = outcome,
                               !.contacted = Append(@, WithPort(work[w].route)),
                               !.reply = IF outcome = "fail" THEN ServFail(work[w].id)
                                         ELSE resp]]
       /\ px' = IF outcome = "fail" THEN px
                ELSE [px EXCEPT !.cache = Set(@, ToLower(work[w].name),
                                              work[w].qtype, resp)]
  /\ UNCHANGED <<hostVars, daemonVars, orphans, sys, faults, crashes, hist, peer, unitVars>>

\* forwardToDoH storing the SERVFAIL of a failed call in the cache
forwardToDoHCacheFailure(w) ==
  /\ work[w].pc = "forward" /\ work[w].route = "doh" /\ ~work[w].orphan
  /\ \E outcome \in Outcomes :
       LET resp == IF outcome = "fail" THEN ServFail(work[w].id)
                   ELSE [id |-> work[w].id, from |-> px.config.ServerURL,
                         kind |-> outcome] IN
       /\ work' = [work EXCEPT ![w] =
                     [@ EXCEPT !.pc = "done", !.outcome = outcome,
                               !.contacted = Append(@, px.config.ServerURL),
                               !.reply = resp]]
       /\ px' = [px EXCEPT !.cache = Set(@, ToLower(work[w].name),
                                         work[w].qtype, resp),
                           !.queriesBlocked = IF outcome = "blocked"
                                              THEN @ + 1 ELSE @]
  /\ UNCHANGED <<hostVars, daemonVars, orphans, sys, faults, crashes, hist, peer, unitVars>>

\* forwardToDoH: one dohClient.Query; SERVFAIL on error, otherwise Cache.Set,
\* the blocked counter and the response
forwardToDoH(w) ==
  /\ work[w].pc = "forward" /\ work[w].route = "doh" /\ ~work[w].orphan
  /\ \E outcome \in Outcomes :
       LET resp == [id |-> work[w].id, from |-> px.config.ServerURL,
                    kind |-> outcome] IN
       /\ work' = [work EXCEPT ![w] =
                     [@ EXCEPT !.pc = "done", !.outcome = outcome,
                               !.contacted = Append(@, px.config.ServerURL),
                               !.reply = IF outcome = "fail" THEN ServFail(work[w].id)
                                         ELSE resp]]
       /\ px' = IF outcome = "fail" THEN px
                ELSE [px EXCEPT !.cache = Set(@, ToLower(work[w].name),
                                              work[w].qtype, resp),
                                !.queriesBlocked = IF outcome = "blocked"
                                                   THEN @ + 1 ELSE @]
  /\ UNCHANGED <<hostVars, daemonVars, orphans, sys, faults, crashes, hist, peer, unitVars>>

\* the handler has written its reply and returns
QueryDone(w) ==
  /\ work[w].pc = "done"
  /\ work' = [work EXCEPT ![w] = NoQuery]
  /\ UNCHANGED <<hostVars, daemonVars, proxyVars, sys, faults, crashes, hist, peer, unitVars>>

\* time passes: an entry of the cache reaches its expiresAt
CacheExpire ==
  /\ \E k \in CacheKeys :
       /\ px.cache[k].present /\ ~px.cache[k].expired
       /\ px' = [px EXCEPT !.cache[k].expired = TRUE]
  /\ UNCHANGED <<hostVars, daemonVars, orphans, sys, faults, crashes, hist, extVars>>

\* an enabled daemon on a systemd-resolved host whose proxy listens on UDP
\* and TCP (a state SpecConfig reaches), with either forwarder list
InitQuery ==
  /\ platform = "systemd-resolved"
  /\ backupFile = [NoBackup EXCEPT !.exists = TRUE, !.dns_modified = TRUE,
                                   !.system = "systemd-resolved",
                                   !.interface = Iface]
  /\ resolvConfBak = [exists |-> FALSE, content |-> <<>>]
  /\ linkDNS = <<Local>>
  /\ nmProfile = [dns |-> <<>>, ignore |-> FALSE]
  /\ resolvConfFile = <<Local>>
  /\ svcDNS = [s \in Services |-> <<>>]
  /\ ifDNS = [i \in Interfaces |-> [source |-> "dhcp", servers |-> DhcpDNS]]
  /\ config \in {[Profile |-> "home", ServerURL |-> DefaultServerURL,
                  Enabled |-> TRUE, Forwarders |-> f] : f \in FwdLists}
  /\ cfgFile = config
  /\ orig = [Resolver EXCEPT !.resolvConf = DhcpDNS, !.link = <<>>]
  /\ pc = [t \in Threads |-> IF t = Main THEN "accept" ELSE "idle"]
  /\ req = [t \in Threads |-> "none"]
  /\ res = [t \in Threads |-> "none"]
  /\ running = TRUE
  /\ proxy = "p"
  /\ mu = NoThread
  /\ listener = TRUE
  /\ px = [NewProxy(config) EXCEPT !.started = TRUE, !.udp = "listening",
                                   !.tcp = "listening"]
  /\ orphans = NoOrphans
  /\ sys = NoCall
  /\ faults = 0
  /\ crashes = 0
  /\ hist = [NoHist EXCEPT !.last = "set-ok", !.lastWrote = TRUE, !.before = DhcpDNS]
  /\ peer = NoPeer
  /\ work = NoWork
  /\ mcall = NoMatchCall
  /\ cch = NoCache
  /\ doh = NoDoH

NextQuery ==
  \/ \E w \in Workers : handleQuery_NoQuestion(w)
  \/ \E w \in Workers : handleQuery(w) \/ handleQuery_Lookup(w)
  \/ \E w \in Workers : forwardToServer(w) \/ forwardToDoH(w) \/ QueryDone(w)
  \/ CacheExpire

SpecQuery == InitQuery /\ [][NextQuery]_vars


\* a name as the matcher compares it: lower case, no trailing dot
Normal(n) == ToLower(TrimSuffix(n, <<".">>))

\* rule r applies to the normalized name n: equal, or a suffix after a dot
RuleMatches(r, n) ==
  \/ n = r.pattern
  \/ /\ Len(n) > Len(r.pattern)
     /\ SubSeq(n, Len(n) - Len(r.pattern), Len(n)) = <<".">> \o r.pattern

\* the indices of the rules that apply to n
Matching(rules, n) == {k \in 1..Len(rules) : RuleMatches(rules[k], Normal(n))}

FirstMatching(rules, n) ==
  CHOOSE k \in Matching(rules, n) : \A j \in Matching(rules, n) : k <= j

\* the steps of worker w at the cache and matcher, and at the upstream
LookupStep(w) == work[w].pc = "lookup" /\ work'[w].pc # "lookup"
ForwardStep(w) == work[w].pc = "forward" /\ work'[w].pc # "forward"

\* the cache holds a live entry for the query of worker w
Hit(w) ==
  LET e == px.cache[cacheKey(ToLower(work[w].name), work[w].qtype)] IN
  e.present /\ ~e.expired

\* C17: for a query with a question the handler consults the cache first, the
\* matcher second and forwards last: a hit is answered from the cache and
\* contacts no upstream; on a miss a matching rule sends the query to that
\* rule's server only, never to the DoH server; only a miss without a
\* matching rule goes to the DoH server.
C17_CacheThenMatchThenForward ==
  [][\A w \in Workers :
       /\ LookupStep(w) =>
            IF Hit(w)
            THEN /\ work'[w].pc = "done" /\ work'[w].route = "cache"
                 /\ work'[w].contacted = <<>>
                 /\ work'[w].reply.kind \in {"ok", "blocked"}
            ELSE /\ work'[w].pc = "forward" /\ work'[w].contacted = <<>>
                 /\ work'[w].route =
                      IF Matching(px.forwarders, work[w].name) # {}
                      THEN px.forwarders[FirstMatching(px.forwarders,
                                                       work[w].name)].server
                      ELSE "doh"
       /\ ForwardStep(w) =>
            /\ work'[w].pc = "done" /\ work'[w].route = work[w].route
            /\ work'[w].contacted =
                 <<IF work[w].route = "doh" THEN px.config.ServerURL
                   ELSE WithPort(work[w].route)>>]_vars

C17_Witness ==
  \E w1, w2 \in Workers :
    /\ work[w1].pc = "done" /\ work[w1].route = "cache" /\ work[w1].contacted = <<>>
    /\ work[w2].pc = "done" /\ work[w2].route \in SplitServers
    /\ work[w2].contacted = <<WithPort(work[w2].route)>>

\* C18: a response served from the cache carries the transaction ID of the
\* query it answers, also when queries with different IDs hit one entry at
\* the same time.
C18_CachedReplyCarriesQueryId ==
  \A w \in Workers :
    (work[w].pc = "done" /\ work[w].route = "cache")
      => work[w].reply.id = work[w].id

C18_Witness ==
  \E w1, w2 \in Workers :
    /\ work[w1].pc = "done" /\ work[w1].route = "cache"
    /\ work[w2].pc = "done" /\ work[w2].route = "cache"
    /\ ToLower(work[w1].name) = ToLower(work[w2].name)
    /\ work[w1].qtype = work[w2].qtype
    /\ work[w1].id # work[w2].id
    /\ work[w1].reply.id = work[w1].id /\ work[w2].reply.id = work[w2].id

\* C19: when the upstream call of a query fails (error, timeout or
\* cancellation) the proxy has contacted one upstream once, answers SERVFAIL
\* with the ID of the query and leaves the cache as it was.
C19_UpstreamFailure ==
  [][\A w \in Workers :
       (ForwardStep(w) /\ work'[w].outcome = "fail")
         => /\ Len(work'[w].contacted) = 1
            /\ work'[w].reply = ServFail(work[w].id)
            /\ px'.cache = px.cache]_vars

C19_Witness ==
  \E w \in Workers :
    /\ work[w].pc = "done" /\ work[w].outcome = "fail"
    /\ work[w].reply.kind = "servfail" /\ Len(work[w].contacted) = 1
    /\ ~px.cache[cacheKey(ToLower(work[w].name), work[w].qtype)].present


\* an enabled daemon that serves the status and set_config requests of one
\* client, one after the other, while its proxy receives messages without
\* question
NextStats ==
  \/ \E w \in Workers : handleQuery_NoQuestion(w) \/ QueryDone(w)
  \/ Status(1) \/ SetConfig(1) \/ Respond(1)
  \/ ProxyStart \/ ProxyStartTCP

SpecStats == InitQuery /\ [][NextStats]_vars

\* C16: the queries_total and queries_blocked that successive status
\* responses of one daemon process carry never decrease.
C16_StatsNeverDecrease ==
  [][pc[Main] # "down"
       => (hist'.total >= hist.total /\ hist'.blocked >= hist.blocked)]_vars


\* --------------------------------- ForwarderMatcher.Match as a function
\* the forwarders a rule list is made of, and the names Match is asked about
FwdDomains == {<<"t", "s", ".", "n", "e", "t">>,
               <<"*", ".", "t", "s", ".", "n", "e", "t">>,
               <<"T", "S", ".", "N", "E", "T", ".">>,
               <<"n", "e", "t">>,
               <<"b", ".", "t", "s", ".", "n", "e", "t">>}
FwdPool == [Domain : FwdDomains, Server : SplitServers]
RuleLists == UNION {[1..n -> FwdPool] : n \in 0..MaxRules}
MatchNames == {<<"a", ".", "t", "s", ".", "n", "e", "t">>,
               <<"a", ".", "b", ".", "t", "s", ".", "n", "e", "t">>,
               <<"x", "t", "s", ".", "n", "e", "t">>,
               <<"t", "s", ".", "n", "e", "t">>,
               <<"A", ".", "t", "S", ".", "N", "e", "t">>,
               <<"a", ".", "t", "s", ".", "n", "e", "t", ".">>,
               <<"n", "e", "t">>,
               <<"x", ".", "i", "o">>}

\* NewForwarderMatcher(forwarders).Match(domain)
MatchCall ==
  /\ ~mcall.called
  /\ \E forwarders \in RuleLists, domain \in MatchNames :
       mcall' = [called |-> TRUE, forwarders |-> forwarders, domain |-> domain,
                 out |-> Match(NewForwarderMatcher(forwarders), domain)]
  /\ UNCHANGED <<hostVars, daemonVars, proxyVars, sys, faults, crashes, hist,
                 peer, work, cch, doh>>

\* the forwarders of a host with a tailnet and a corporate zone, and the
\* names its proxy is asked for (q.Name, fully qualified)
CorpForwarders ==
  <<[Domain |-> <<"t", "s", ".", "n", "e", "t">>, Server |-> "100.100.100.100"],
    [Domain |-> <<"*", ".", "c", "o", "r", "p">>, Server |-> "10.0.0.53"]>>
CorpNames == {<<"a", ".", "b", ".", "t", "s", ".", "n", "e", "t", ".">>,
              <<"x", ".", "c", "o", "r", "p", ".">>,
              <<"c", "o", "r", "p", ".">>,
              <<"x", ".", "i", "o", ".">>}

\* handleQuery's p.forwarders.Match(qname) with these forwarders
RouteCall ==
  /\ ~mcall.called
  /\ \E domain \in CorpNames :
       mcall' = [called |-> TRUE, forwarders |-> CorpForwarders, domain |-> domain,
                 out |-> Match(NewForwarderMatcher(CorpForwarders), domain)]
  /\ UNCHANGED <<hostVars, daemonVars, proxyVars, sys, faults, crashes, hist,
                 peer, work, cch, doh>>

NextMatch == MatchCall \/ RouteCall

SpecMatch == InitProxy /\ [][NextMatch]_vars

\* C20: Match returns the server of the first rule, in input order, whose
\* normalized pattern equals the normalized name or is a suffix of it after
\* a dot, and "" when there is none; the result is the same for the name in
\* any case and with a trailing dot.
C20_MatchFirstRule ==
  mcall.called =>
    LET rules == NewForwarderMatcher(mcall.forwarders)
        n == mcall.domain
        hits == Matching(rules, n) IN
    /\ mcall.out = IF hits = {} THEN ""
                   ELSE rules[FirstMatching(rules, n)].server
    /\ Match(rules, ToUpper(n)) = mcall.out
    /\ Match(rules, ToLower(n)) = mcall.out
    /\ ~HasSuffix(n, <<".">>) => Match(rules, n \o <<".">>) = mcall.out

C20_Witness ==
  /\ mcall.called /\ Len(mcall.forwarders) = 2
  /\ mcall.forwarders[1].Server # mcall.forwarders[2].Server
  /\ Matching(NewForwarderMatcher(mcall.forwarders), mcall.domain) = {1, 2}
  /\ mcall.out = mcall.forwarders[1].Server


\* C21: with forwarders [ts.net -> 100.100.100.100, *.corp -> 10.0.0.53] a
\* query for a.b.ts.net is routed to 100.100.100.100:53, a query for x.corp
\* to 10.0.0.53:53, and the bare name corp matches no rule.
C21_CorpRouting ==
  (mcall.called /\ mcall.forwarders = CorpForwarders) =>
    /\ Normal(mcall.domain) = <<"a", ".", "b", ".", "t", "s", ".", "n", "e", "t">>
         => WithPort(mcall.out) = "100.100.100.100:53"
    /\ Normal(mcall.domain) = <<"x", ".", "c", "o", "r", "p">>
         => WithPort(mcall.out) = "10.0.0.53:53"
    /\ Normal(mcall.domain) = <<"c", "o", "r", "p">> => mcall.out = ""


\* ----------------------------------------------- the Cache on its own: calls
\* the unused variables of a behaviour of the Cache on its own
CacheFrame == UNCHANGED <<hostVars, daemonVars, proxyVars, sys, faults, crashes,
                          hist, peer, work, mcall, doh>>

\* NewCache(ttl, maxSize)
CacheNew ==
  /\ ~cch.made
  /\ \E maxSize \in 1..MaxSize : cch' = Cache_New(DefaultTTL, maxSize)
  /\ CacheFrame

\* time passes between two calls
CacheTick ==
  /\ cch.made /\ cch.ticks < MaxTicks
  /\ \E d \in Steps : cch' = [cch EXCEPT !.now = @ + d, !.ticks = @ + 1,
                                         !.last = NoLast]
  /\ CacheFrame

\* c.Get(domain, qtype)
CacheGet ==
  /\ cch.made
  /\ \E key \in UnitKeys :
       cch' = [cch EXCEPT !.last = [NoLast EXCEPT !.op = "Get", !.key = key,
                                                  !.out = Cache_Get(cch, key)]]
  /\ CacheFrame

\* min(default_ttl, smallest answer-RR TTL)
EffectiveTTL(ttl, msg) ==
  LET least == CHOOSE t \in {msg.Answer[i] : i \in DOMAIN msg.Answer} :
                 \A i \in DOMAIN msg.Answer : t <= msg.Answer[i]
  IN  IF msg.Answer = <<>> THEN ttl ELSE IF least < ttl THEN least ELSE ttl

\* c.Set(domain, qtype, msg)
CacheSetNoFloor ==
  /\ cch.made /\ cch.sets < MaxSets
  /\ \E key \in UnitKeys, msg \in UnitMsgs :
       LET ttl == Cache_SetTTL(cch.ttl, msg)
           victims == IF Cache_Size(cch.entries) >= cch.maxSize
                         /\ Cache_Oldest(cch.entries) # {}
                      THEN Cache_Oldest(cch.entries) ELSE {NoKey}
       IN  \E victim \in victims :
             cch' = [cch EXCEPT
               !.sets = @ + 1,
               !.last = [NoLast EXCEPT !.op = "Set", !.key = key, !.msg = msg,
                                       !.victim = victim],
               !.entries = [Cache_evictOldest(@, victim) EXCEPT
                              ![key] = [present |-> TRUE, msg |-> msg,
                                        expiresAt |-> cch.now + ttl]],
               !.ins = [k \in UnitKeys |->
                          IF k = key
                          THEN [live |-> TRUE, at |-> cch.now,
                                T |-> EffectiveTTL(cch.ttl, msg), msg |-> msg]
                          ELSE IF k = victim THEN [@[k] EXCEPT !.live = FALSE]
                          ELSE @[k]]]
  /\ CacheFrame
CacheSet ==
  /\ cch.made /\ cch.sets < MaxSets
  /\ \E key \in UnitKeys, msg \in UnitMsgs :
       LET ttl == Cache_SetTTL(cch.ttl, msg)
           victims == IF Cache_Size(cch.entries) >= cch.maxSize
                         /\ Cache_Oldest(cch.entries) # {}
                      THEN Cache_Oldest(cch.entries) ELSE {NoKey}
       IN  IF ttl < ShortTTL
           THEN cch' = [cch EXCEPT
                  !.sets = @ + 1,
                  !.last = [NoLast EXCEPT !.op = "Set", !.key = key,
                                          !.msg = msg]]
           ELSE \E victim \in victims :
                  cch' = [cch EXCEPT
                    !.sets = @ + 1,
                    !.last = [NoLast EXCEPT !.op = "Set", !.key = key,
                                            !.msg = msg, !.victim = victim],
                    !.entries = [Cache_evictOldest(@, victim) EXCEPT
                                   ![key] = [present |-> TRUE, msg |-> msg,
                                             expiresAt |-> cch.now + ttl]],
                    !.ins = [k \in UnitKeys |->
                               IF k = key
                               THEN [live |-> TRUE, at |-> cch.now,
                                     T |-> EffectiveTTL(cch.ttl, msg),
                                     msg |-> msg]
                               ELSE IF k = victim
                                    THEN [@[k] EXCEPT !.live = FALSE]
                               ELSE @[k]]]
  /\ CacheFrame

\* the ticker of the cleanup goroutine fires
CacheCleanup ==
  /\ cch.made
  /\ cch' = [cch EXCEPT !.entries = Cache_cleanup(cch), !.last = NoLast]
  /\ cch' # cch
  /\ CacheFrame

\* c.Clear()
CacheClear ==
  /\ cch.made
  /\ cch' = [cch EXCEPT !.entries = [k \in UnitKeys |-> NoUnitEntry],
                        !.ins = [k \in UnitKeys |-> [@[k] EXCEPT !.live = FALSE]],
                        !.last = [NoLast EXCEPT !.op = "Clear"]]
  /\ CacheFrame

NextCache ==
  CacheNew \/ CacheTick \/ CacheGet \/ CacheSet \/ CacheCleanup \/ CacheClear

SpecCache == InitProxy /\ [][NextCache]_vars


\* a step of Set, of Get
SetStep == cch.made /\ cch'.sets = cch.sets + 1 /\ cch'.last.op = "Set"
GetReturned == cch.made /\ cch.last.op = "Get"

\* C22: a Set whose effective TTL, min(default_ttl, smallest answer-RR TTL),
\* is below 10 seconds stores nothing, and every entry present was inserted
\* with an effective TTL of at least 10 seconds and at most default_ttl.
C22_ShortTTLNotStored ==
  [][/\ (SetStep /\ EffectiveTTL(cch.ttl, cch'.last.msg) < 10)
          => cch'.entries = cch.entries
     /\ \A k \in UnitKeys : cch'.entries[k].present =>
          /\ cch'.ins[k].live
          /\ cch'.ins[k].T >= 10 /\ cch'.ins[k].T <= cch'.ttl
          /\ cch'.entries[k].expiresAt = cch'.ins[k].at + cch'.ins[k].T]_vars
C22_Witness ==
  /\ cch.last.op = "Set" /\ cch.last.msg = [Answer |-> <<5>>]
  /\ ~cch.entries[cch.last.key].present
  /\ \E k \in UnitKeys : cch.entries[k].present /\ cch.ins[k].T = 10

\* C23: an entry inserted with effective TTL T >= 10 s that no later Set or
\* Clear has removed is returned, equal to the inserted response, by every
\* Get up to T seconds after the insertion, and every later Get misses,
\* whether or not the cleanup has run in between.
C23_HitUntilExpiry ==
  GetReturned =>
    LET i == cch.ins[cch.last.key]
    IN  (i.live /\ i.T >= 10) =>
          /\ cch.now <= i.at + i.T => cch.last.out = i.msg
          /\ cch.now > i.at + i.T => cch.last.out = NilMsg
C23_Witness ==
  /\ GetReturned /\ cch.ins[cch.last.key].live
  /\ cch.ins[cch.last.key].T = 300
  /\ cch.now = cch.ins[cch.last.key].at + 300
  /\ cch.last.out = cch.ins[cch.last.key].msg
  /\ \E k \in UnitKeys : cch.ins[k].live /\ ~cch.entries[k].present

\* C24: after any sequence of Set, Get, Clear and cleanup the number of
\* entries is at most MaxSize.
C24_SizeAtMostMaxSize == cch.made => Cache_Size(cch.entries) <= cch.maxSize
C24_Witness ==
  /\ cch.made /\ cch.last.op = "Set" /\ cch.last.victim # NoKey
  /\ Cache_Size(cch.entries) = cch.maxSize /\ cch.maxSize = MaxSize

\* C25: a Set that stores a new key in a Cache holding MaxSize entries
\* removes exactly one entry, one whose expires_at is the smallest.
C25_EvictsSmallestExpiry ==
  [][(/\ SetStep
      /\ ~cch.entries[cch'.last.key].present
      /\ cch'.entries[cch'.last.key].present
      /\ Cache_Size(cch.entries) = cch.maxSize)
     => \E v \in UnitKeys \ {cch'.last.key} :
          /\ cch.entries[v].present /\ ~cch'.entries[v].present
          /\ \A j \in UnitKeys : cch.entries[j].present =>
               cch.entries[v].expiresAt <= cch.entries[j].expiresAt
          /\ \A j \in UnitKeys \ {v, cch'.last.key} :
               cch'.entries[j] = cch.entries[j]]_vars
C25_Witness ==
  /\ cch.made /\ cch.maxSize = 2 /\ cch.last.op = "Set"
  /\ cch.last.victim \notin {NoKey, cch.last.key}
  /\ cch.ins[cch.last.victim].at + cch.ins[cch.last.victim].T = 10
  /\ {cch.entries[k].expiresAt : k \in {j \in UnitKeys : cch.entries[j].present}}
       = {20, 30}


\* ------------------------------------------ the DoH client on its own: calls
DohFrame == UNCHANGED <<hostVars, daemonVars, proxyVars, sys, faults, crashes,
                        hist, peer, work, mcall, cch>>

\* NewDoHClient(serverURL, profile): the bootstrap servers answer or not
NewDoHClient ==
  /\ ~doh.made
  /\ \E serverURL \in DohURLs,
        answers \in [1..Len(BootstrapDNS) -> UpstreamIPs \cup {""}] :
       doh' = [NoDoH EXCEPT !.made = TRUE, !.serverURL = serverURL,
                            !.answers = answers,
                            !.serverIP = resolveServerIP(serverURL, answers)]
  /\ DohFrame

\* Query: httpClient.Do opens a connection to the URL's host through
\* dialContext; net.Dialer resolves a host that is no IP with the system
\* resolver; the connection and the exchange succeed or fail
DohQuery ==
  /\ doh.made /\ doh.dials < MaxDials
  /\ \E ok \in BOOLEAN :
       LET addr == dialContext(doh, JoinHostPort(Hostname(doh.serverURL),
                                                 PortOf(doh.serverURL)))
       IN  doh' = [doh EXCEPT !.dials = @ + 1, !.dialed = addr,
                              !.lookup = IF IsIP(addr.host) THEN "" ELSE addr.host,
                              !.result = IF ok THEN "ok" ELSE "fail"]
  /\ DohFrame

NextDoH == NewDoHClient \/ DohQuery

SpecDoH == InitProxy /\ [][NextDoH]_vars

\* C26: every connection the DoH client opens to the configured upstream
\* host name is dialed to the pre-resolved bootstrap IP (or the IP literal of
\* the URL), and when the bootstrap resolution has not succeeded a query
\* fails instead of resolving the host name with the system resolver.
C26_DialsPreResolvedIP ==
  (doh.made /\ doh.dials > 0) =>
    /\ doh.serverIP # "" =>
         doh.dialed = JoinHostPort(doh.serverIP, PortOf(doh.serverURL))
    /\ doh.serverIP = "" => (doh.result = "fail" /\ doh.lookup = "")


\* ------------------------------------------- requests the daemon cannot serve
\* what a connection can carry that no case of handleConnection serves: bytes
\* that are no JSON object, an action outside the switch, set_config without
\* a config
BadRequests == {"malformed", "unknown", "set_config without config"}
\* the error handleConnection answers it with
BadRequestError(r) ==
  CASE r = "malformed" -> "invalid character"
    [] r = "unknown" -> "unknown action"
    [] OTHER -> "no config provided"

\* handleConnection, from the Accept to the encoded response, for such a
\* request
BadRequest(t) ==
  /\ pc[Main] = "accept" /\ listener /\ pc[t] = "idle"
  /\ \E r \in BadRequests :
       /\ req' = [req EXCEPT ![t] = r]
       /\ res' = [res EXCEPT ![t] = BadRequestError(r)]
  /\ pc' = [pc EXCEPT ![t] = "ret"]
  /\ UNCHANGED <<hostVars, config, running, proxy, mu, listener, proxyVars, sys,
                 faults, crashes, hist, extVars>>

NextRequests == NextControl \/ \E t \in Handlers : BadRequest(t)

SpecRequests == InitProxy /\ [][NextRequests]_vars

\* thread t handles a whole request in the step, and answers success=false
Refused(t) == pc[t] = "idle" /\ pc'[t] = "ret" /\ res'[t] # "ok"

\* C27: every connection gets exactly one response and is then closed; a
\* malformed request, an unknown action or a failing action is answered with
\* success=false and an error message, leaves the daemon's state as it was,
\* and the daemon goes on accepting connections.
C27_BadRequestChangesNothing ==
  [][\A t \in Handlers :
       /\ (pc[t] = "ret" /\ pc'[t] = "idle") => res[t] # "none"
       /\ Refused(t) =>
            /\ res'[t] # "none"
            /\ config' = config /\ cfgFile' = cfgFile
            /\ running' = running /\ proxy' = proxy /\ px' = px
            /\ Resolver' = Resolver /\ backupFile' = backupFile
            /\ listener' /\ pc'[Main] = "accept"]_vars


\* the control plane with set_config and with restarts of the daemon process
NextStartup == NextControl \/ Crash

SpecStartup == InitProxy /\ [][NextStartup]_vars

handleQuery_Read(w) ==
  /\ work[w].pc = "idle" /\ Serving /\ px.received < MaxQueries
  /\ \/ \E id \in Ids :
          work' = [work EXCEPT ![w] =
                     [NoQuery EXCEPT !.pc = "count", !.id = id,
                                     !.seen = px.queriesTotal]]
     \/ \E id \in Ids, name \in AskedNames, qtype \in Qtypes :
          work' = [work EXCEPT ![w] =
                     [NoQuery EXCEPT !.pc = "count", !.id = id, !.name = name,
                                     !.qtype = qtype, !.question = TRUE,
                                     !.seen = px.queriesTotal]]
  /\ px' = [px EXCEPT !.received = @ + 1]
  /\ UNCHANGED <<hostVars, daemonVars, orphans, sys, faults, crashes, hist, peer,
                 unitVars>>

\* the second half: the worker writes what it read plus one, and goes on
\* (HandleFailed for a query without a question, else the cache)
handleQuery_Write(w) ==
  /\ work[w].pc = "count" /\ ~work[w].orphan
  /\ px' = [px EXCEPT !.queriesTotal = work[w].seen + 1]
  /\ work' = [work EXCEPT ![w] =
                IF work[w].question
                THEN [@ EXCEPT !.pc = "lookup", !.seen = 0]
                ELSE [@ EXCEPT !.pc = "done", !.seen = 0,
                               !.reply = ServFail(work[w].id)]]
  /\ UNCHANGED <<hostVars, daemonVars, orphans, sys, faults, crashes, hist, peer,
                 unitVars>>

NextCount ==
  \/ \E w \in Workers : handleQuery_Read(w) \/ handleQuery_Write(w)
  \/ \E w \in Workers : handleQuery_Lookup(w)
  \/ \E w \in Workers : forwardToServer(w) \/ forwardToDoH(w) \/ QueryDone(w)

SpecCount == InitQuery /\ [][NextCount]_vars

\* C29: queries_total is incremented exactly once per incoming query, with
\* or without a question, answered from the cache or not: once every handler
\* has done its increment, queries_total is the number of queries received.
C29_NoLostIncrement ==
  (\A w \in Workers : work[w].pc # "count") => px.queriesTotal = px.received

\* ------------------------------------------------------ blocked responses
\* responses of an upstream, as isBlockedResponse reads them: the rcode and
\* the type and address of each answer
UpstreamMsgs ==
  {[Rcode |-> "NOERROR", Answer |-> <<[Type |-> "A", Addr |-> "93.184.216.34"]>>],
   [Rcode |-> "NOERROR", Answer |-> <<[Type |-> "AAAA", Addr |-> "2001:db8::1"]>>],
   [Rcode |-> "NOERROR", Answer |-> <<>>],
   [Rcode |-> "NXDOMAIN", Answer |-> <<>>],
   [Rcode |-> "NOERROR", Answer |-> <<[Type |-> "A", Addr |-> "0.0.0.0"]>>],
   [Rcode |-> "NOERROR", Answer |-> <<[Type |-> "AAAA", Addr |-> "::"]>>],
   [Rcode |-> "NOERROR", Answer |-> <<[Type |-> "CNAME", Addr |-> "::"],
                                      [Type |-> "A", Addr |-> "0.0.0.0"]>>]}
RECURSIVE isBlockedAnswer(_)
isBlockedAnswer(answer) ==
  IF answer = <<>> THEN FALSE
  ELSE IF Head(answer).Type = "A" /\ Head(answer).Addr = "0.0.0.0" THEN TRUE
  ELSE IF Head(answer).Type = "AAAA" /\ Head(answer).Addr = "::" THEN TRUE
  ELSE isBlockedAnswer(Tail(answer))
isBlockedResponse(resp) ==
  IF resp.Rcode = "NXDOMAIN" THEN TRUE ELSE isBlockedAnswer(resp.Answer)
\* the responses behind the outcome of an exchange with an upstream
Upstream(outcome) ==
  CASE outcome = "blocked" -> {m \in UpstreamMsgs : isBlockedResponse(m)}
    [] outcome \in {"ok", "short"} -> {m \in UpstreamMsgs : ~isBlockedResponse(m)}
    [] OTHER -> {}

\* a block: rcode NXDOMAIN, or an A answer 0.0.0.0, or an AAAA answer ::
IsBlock(m) ==
  \/ m.Rcode = "NXDOMAIN"
  \/ \E i \in DOMAIN m.Answer : m.Answer[i] = [Type |-> "A", Addr |-> "0.0.0.0"]
  \/ \E i \in DOMAIN m.Answer : m.Answer[i] = [Type |-> "AAAA", Addr |-> "::"]

\* C30: after a query has been forwarded successfully, to a split-DNS server
\* or over DoH, queries_blocked is incremented if and only if the response is
\* a block.
C30_BlockedCounted ==
  [][\A w \in Workers :
       (ForwardStep(w) /\ work'[w].outcome # "fail") =>
         \A m \in Upstream(work'[w].outcome) :
           (px'.queriesBlocked = px.queriesBlocked + 1) <=> IsBlock(m)]_vars


\* C31: after Proxy.Stop has returned, the UDP and the TCP listener of the
\* stopped proxy are closed, so that a proxy started afterwards binds both
\* UDP and TCP on 127.0.0.1:53 (unless the bind itself fails).
C31_StopFreesBothPorts ==
  [][/\ (px.tcp = "pending" /\ px'.tcp # "pending" /\ proxy' = "p"
           /\ faults' = faults) => px'.tcp = "listening"
     /\ (proxy = "p" /\ ~px.started /\ px'.started /\ faults' = faults)
           => px'.udp = "listening"]_vars


\* ------------------------------------------------- the swap of the matcher
\* the forwarder lists UpdateForwarders is called with
SwapLists ==
  {<<[Domain |-> <<"t", "s", ".", "n", "e", "t">>, Server |-> "192.168.1.1:53"]>>}

\* Proxy.UpdateForwarders: under p.mu, p.forwarders = NewForwarderMatcher(..);
\* prev and updates keep what was replaced and how often
UpdateForwarders ==
  /\ Serving /\ px.updates < MaxUpdates
  /\ \E forwarders \in SwapLists :
       /\ NewForwarderMatcher(forwarders) # px.forwarders
       /\ px' = [px EXCEPT !.forwarders = NewForwarderMatcher(forwarders),
                           !.prev = px.forwarders, !.updates = @ + 1]
  /\ UNCHANGED <<hostVars, daemonVars, orphans, sys, faults, crashes, hist, peer,
                 work, unitVars>>

\* what the read of p.forwarders in handleQuery, which takes no lock, can
\* see of a matcher that UpdateForwarders has stored: the new matcher, the
\* one before it, or the new matcher without its rules
ReadForwarders ==
  IF px.updates = 0 THEN {px.forwarders}
  ELSE {px.forwarders, px.prev, <<>>}

\* handleQuery from the cache lookup on, with that read
handleQuery_LookupUnlocked(w) ==
  /\ work[w].pc = "lookup" /\ ~work[w].orphan
  /\ \E rules \in ReadForwarders :
       LET qname == ToLower(work[w].name)
           cached == Get(px.cache, qname, work[w].qtype)
           forwarder == Match(rules, qname) IN
       work' = [work EXCEPT ![w] =
                  IF cached # NoMsg
                  THEN [@ EXCEPT !.pc = "done", !.route = "cache",
                                 !.reply = [cached EXCEPT !.id = work[w].id]]
                  ELSE IF forwarder # ""
                  THEN [@ EXCEPT !.pc = "forward", !.route = forwarder,
                                 !.rules = rules]
                  ELSE [@ EXCEPT !.pc = "forward", !.route = "doh",
                                 !.rules = rules]]
  /\ UNCHANGED <<hostVars, daemonVars, proxyVars, sys, faults, crashes, hist, peer,
                 unitVars>>

\* one handler goroutine at a time against the caller of UpdateForwarders
OneWorker == {w \in Workers : w <= 1}

NextSwap ==
  \/ \E w \in OneWorker : handleQuery(w) \/ handleQuery_LookupUnlocked(w)
  \/ \E w \in OneWorker : forwardToServer(w) \/ forwardToDoH(w) \/ QueryDone(w)
  \/ UpdateForwarders

SpecSwap == InitQuery /\ [][NextSwap]_vars

\* C32: a query that runs concurrently with update_forwarders is matched
\* against the complete old or the complete new rule list, and a query that
\* starts after update_forwarders has returned against the new list.
C32_MatcherSwapConsistent ==
  [][\A w \in Workers :
       (LookupStep(w) /\ work'[w].route # "cache") =>
         /\ work[w].epoch = px.updates => work'[w].rules = px.forwarders
         /\ work[w].epoch < px.updates
              => work'[w].rules \in {px.prev, px.forwarders}]_vars

\* the queries with the matcher read as UpdateForwarders left it
NextForward ==
  \/ \E w \in OneWorker : handleQuery(w) \/ handleQuery_Lookup(w)
  \/ \E w \in OneWorker : forwardToServer(w) \/ forwardToDoH(w) \/ QueryDone(w)
  \/ UpdateForwarders

SpecForward == InitQuery /\ [][NextForward]_vars

\* C39: after update_forwarders has returned, a query whose name matches a
\* rule of the new list is answered from that rule's split server (or with
\* the failure of that server), never with a response cached from DoH.
C39_NewRuleBeatsCache ==
  [][\A w \in Workers :
       (/\ work[w].pc # "done" /\ work'[w].pc = "done"
        /\ px.updates > 0 /\ work[w].epoch = px.updates
        /\ Matching(px.forwarders, work[w].name) # {})
       => \/ work'[w].reply.kind = "servfail"
          \/ work'[w].reply.from =
               WithPort(px.forwarders[FirstMatching(px.forwarders,
                                                    work[w].name)].server)]_vars


\* C33: the NetworkManager restore writes back both backed-up values, the
\* original ipv4.dns list and the original ipv4.ignore-auto-dns flag, for
\* every combination of an empty or non-empty list and either flag.
C33_NMRestoresBothValues ==
  [][(/\ platform = "networkmanager" /\ sys.op = "reset"
      /\ sys.pc = "begin" /\ sys'.pc = "up" /\ LoadBackup.exists)
     => nmProfile' = [dns |-> LoadBackup.original_dns,
                      ignore |-> LoadBackup.ignore_auto_dns]]_vars


\* ------------------------------------ the Cache on its own: names and types
\* NewCache(5*time.Minute, 10000) of NewProxy
DefaultMaxSize == 10000
\* the types of the calls: A, AAAA and two of the private-use range, for
\* which dns.TypeToString has no entry
KeyQtypes == {1, 28, 65280, 65281}
KeyNames == {<<"a", ".">>, <<"b", ".">>}
TypedKeys == {cacheKey(n, t) : n \in KeyNames, t \in KeyQtypes}

\* NewCache(ttl, maxSize), so large that Set evicts nothing
KeyNew ==
  /\ ~cch.made
  /\ cch' = [Cache_New(DefaultTTL, DefaultMaxSize) EXCEPT
               !.entries = [k \in TypedKeys |-> NoUnitEntry]]
  /\ CacheFrame

\* c.Set(domain, qtype, msg)
KeySet ==
  /\ cch.made /\ cch.sets < MaxSets
  /\ \E domain \in KeyNames, qtype \in KeyQtypes, msg \in UnitMsgs :
       LET key == cacheKey(domain, qtype)
           ttl == Cache_SetTTL(cch.ttl, msg)
           victims == IF Cache_Size(cch.entries) >= cch.maxSize
                         /\ Cache_Oldest(cch.entries) # {}
                      THEN Cache_Oldest(cch.entries) ELSE {NoKey}
           last == [NoLast EXCEPT !.op = "Set", !.key = key, !.msg = msg,
                                  !.domain = domain, !.qtype = qtype]
       IN  IF ttl < ShortTTL
           THEN cch' = [cch EXCEPT !.sets = @ + 1, !.last = last]
           ELSE \E victim \in victims :
                  cch' = [cch EXCEPT
                    !.sets = @ + 1,
                    !.last = [last EXCEPT !.victim = victim],
                    !.entries = [Cache_evictOldest(@, victim) EXCEPT
                                   ![key] = [present |-> TRUE, msg |-> msg,
                                             expiresAt |-> cch.now + ttl]]]
  /\ CacheFrame

\* c.Get(domain, qtype)
KeyGet ==
  /\ cch.made
  /\ \E domain \in KeyNames, qtype \in KeyQtypes :
       cch' = [cch EXCEPT !.last =
                 [NoLast EXCEPT !.op = "Get", !.key = cacheKey(domain, qtype),
                                !.domain = domain, !.qtype = qtype,
                                !.out = Cache_Get(cch, cacheKey(domain, qtype))]]
  /\ CacheFrame

NextKeys == KeyNew \/ KeySet \/ KeyGet

SpecKeys == Init /\ [][NextKeys]_vars

\* C34: entries are keyed by the pair of name and numeric type: a Set for
\* (n1, t1) leaves what Get(n2, t2) returns as it was whenever the pairs
\* differ, also for types without a registered mnemonic.
C34_KeyedByNameAndType ==
  [][(cch.made /\ cch'.last.op = "Set") =>
       \A n2 \in KeyNames, t2 \in KeyQtypes :
         <<n2, t2>> # <<cch'.last.domain, cch'.last.qtype>>
           => Cache_Get(cch', cacheKey(n2, t2)) = Cache_Get(cch, cacheKey(n2, t2))]_vars


\* C35: whenever no request holds the daemon's lock, the daemon is running
\* exactly if it has a proxy, after any sequence of enable, disable,
\* set_config and failed enable.
C35_RunningIffProxy ==
  mu = NoThread => (running <=> proxy = "p")


C35_Witness ==
  /\ mu = NoThread /\ ~running /\ proxy = "nil" /\ hist.enableFailed
  /\ \E t \in Handlers : req[t] = "enable" /\ pc[t] = "ret"
                         /\ res[t] = "failed to set system DNS"


\* C36: while a backup file exists its payload stays the resolver
\* configuration from before the first diversion: a SetDNS made while a
\* backup is on disk does not replace the backed-up values.
C36_BackupKeepsOriginals ==
  [][(sys.op = "set" /\ backupFile.exists /\ backupFile'.exists)
       => backupFile' = backupFile]_vars


\* C37: when persisting the config fails during set_config, the request
\* reports a failure and the config in memory, the proxy and its forwarder
\* rules are what they were before.
C37_FailedSaveChangesNothing ==
  [][\A t \in Handlers :
       (pc[t] = "idle" /\ req'[t] = "set_config"
          /\ res'[t] = "failed to save config")
       => /\ cfgFile' = cfgFile
          /\ config' = config
          /\ proxy' = proxy /\ px' = px]_vars


\* C38: a Set for a key that is already present in a cache holding MaxSize
\* entries only replaces the entry of that key: the set of cached keys stays
\* as it was and no other key is evicted.
C38_ReplaceEvictsNothing ==
  [][(/\ cch.made /\ cch'.last.op = "Set" /\ cch'.sets = cch.sets + 1
      /\ cch.entries[cch'.last.key].present
      /\ Cache_Size(cch.entries) = cch.maxSize)
     => {k \in DOMAIN cch.entries : cch'.entries[k].present}
          = {k \in DOMAIN cch.entries : cch.entries[k].present}]_vars


\* C40: after any sequence of enable, disable and set_config requests that
\* succeeded, the enabled flag of the persisted config equals the running
\* state of the daemon.
C40_EnabledIsRunning ==
  (/\ mu = NoThread /\ faults = 0 /\ pc[Main] = "accept"
   /\ \E t \in Handlers : pc[t] = "ret" /\ res[t] = "ok")
  => cfgFile.Enabled = running

====
